---- MODULE Spec2Model ----
(***************************************************************************)
(* The modifier engine of pilgram (src/pilgram/modifiers.py): the registry *)
(* filled while the module is imported, the generation rule, the lookups,  *)
(* instance equality and the apply pipeline with every variant's behaviour.*)
(* Python objects live in `heap` (an object's identity is its index), a    *)
(* raised exception is an outcome recorded in `call.exc`.                   *)
(***************************************************************************)
EXTENDS Integers, Sequences, FiniteSets, TLC

VARIABLES
  _LIST,          \* modifiers.py:41  list of registered classes
  _RARITY_INDEX,  \* modifiers.py:42  rarity -> list of registered classes
  _NAME_LUT,      \* modifiers.py:43  NAME -> class
  classes,        \* the class objects created so far: class -> its own attributes
  defined,        \* number of class statements of modifiers.py executed so far
  heap,           \* the Modifier instances created so far
  origin,         \* for each instance of heap: the call that made it
  actors,         \* the combat actors: hp, max hp, timed_modifiers
  call,           \* the last call made: operation, arguments, outcome
  tally,          \* history: how often the watched effect met its trigger and acted
  player,         \* classes.py: the Player the calls are made on, with its guild
  _NEXT_FLAG,     \* flags.py:7   the value the next Flag subclass gets (its 1 bits)
  FLAG,           \* flags.py:16  Flag subclass -> its FLAG attribute
  scen            \* what the caller works with in this run (drawn in Init)

vars == <<_LIST, _RARITY_INDEX, _NAME_LUT, classes, defined, heap, origin, actors, call,
          tally, player, _NEXT_FLAG, FLAG, scen>>

\* the state of classes.py and flags.py, which modifiers.py leaves alone
restvars == <<player, _NEXT_FLAG, FLAG>>

regvars == <<_LIST, _RARITY_INDEX, _NAME_LUT, classes, defined>>

(***************************** bounds **************************************)
MaxObjs == 2        \* instances alive in one run
MaxLevel == 250     \* levels handed to generate
MaxHP == 2
MaxApplies == 4     \* counted applies of the watched effect in one run
MaxDuration == 2
\* the most an overheal may leave an actor with
HpCap == MaxHP + 1          \* max hp of an actor
IdMargin == 2       \* ids tried beyond either end of the catalog
MaxZoneLevel == 4   \* zones have levels 1 .. MaxZoneLevel
MaxQuestNumber == 4 \* the quests of a zone are numbered 0 .. MaxQuestNumber
MaxPlayerLevel == 2  \* levels 0 .. MaxPlayerLevel of the player before a call
MaxXp == 3           \* xp 0 .. MaxXp of the player before a call
MaxXpGain == 700     \* amounts 0 .. MaxXpGain handed to add_xp
MaxGearLevel == 3    \* gear levels 0 .. MaxGearLevel before an upgrade
MaxHomeLevel == 1    \* home levels 0 .. MaxHomeLevel before an upgrade
MaxMoney == 1100     \* money 0 .. MaxMoney of the player at the start
MoneyMargin == 3     \* a founder's money lies this close to the prices at the start
MaxBit == 2          \* flag containers hold any of the bits 0 .. MaxBit

(************************ ModifierType, Rarity *****************************)
COMBAT_START == 0
PRE_ATTACK == 1
PRE_DEFEND == 2
MID_ATTACK == 3
MID_DEFEND == 4
POST_ATTACK == 5
POST_DEFEND == 6
REWARDS == 7
MODIFY_MAX_HP == 8
TURN_START == 9

COMMON == 0
UNCOMMON == 1
RARE == 2
LEGENDARY == 3

(***************************************************************************)
(* The class statements of modifiers.py in the order Python executes them: *)
(* a nested class is created while the body of its outer class runs, so it *)
(* comes before the outer class.  kw: the keywords of the class statement; *)
(* body: the attributes the class body assigns (SCALING in tenths).        *)
(***************************************************************************)
ClassDefs ==
  <<
    [cls |-> "_GenericDamageMult", base |-> "Modifier",
     kw |-> <<>>,
     body |-> [MAX_STRENGTH |-> 100, MIN_STRENGTH |-> 1, SCALING |-> 20]],
    [cls |-> "_GenericDamageBonus", base |-> "Modifier",
     kw |-> <<>>,
     body |-> [MAX_STRENGTH |-> 0, MIN_STRENGTH |-> 1, SCALING |-> 20, OP_ORDERING |-> 1]],
    [cls |-> "_GenericDamageAbsorb", base |-> "Modifier",
     kw |-> <<>>,
     body |-> [TYPE |-> MID_DEFEND, MAX_STRENGTH |-> 100, MIN_STRENGTH |-> 1, SCALING |-> 20]],
    [cls |-> "SlashAttackMult", base |-> "_GenericDamageMult",
     kw |-> [dmg_type |-> "slash", mod_type |-> PRE_ATTACK],
     body |-> <<>>],
    [cls |-> "PierceAttackMult", base |-> "_GenericDamageMult",
     kw |-> [dmg_type |-> "pierce", mod_type |-> PRE_ATTACK],
     body |-> <<>>],
    [cls |-> "BluntAttackAttackMult", base |-> "_GenericDamageMult",
     kw |-> [dmg_type |-> "blunt", mod_type |-> PRE_ATTACK],
     body |-> <<>>],
    [cls |-> "OccultAttackMult", base |-> "_GenericDamageMult",
     kw |-> [dmg_type |-> "occult", mod_type |-> PRE_ATTACK],
     body |-> <<>>],
    [cls |-> "FireAttackMult", base |-> "_GenericDamageMult",
     kw |-> [dmg_type |-> "fire", mod_type |-> PRE_ATTACK],
     body |-> <<>>],
    [cls |-> "AcidAttackMult", base |-> "_GenericDamageMult",
     kw |-> [dmg_type |-> "acid", mod_type |-> PRE_ATTACK],
     body |-> <<>>],
    [cls |-> "FreezeAttackMult", base |-> "_GenericDamageMult",
     kw |-> [dmg_type |-> "freeze", mod_type |-> PRE_ATTACK],
     body |-> <<>>],
    [cls |-> "ElectricAttackMult", base |-> "_GenericDamageMult",
     kw |-> [dmg_type |-> "electric", mod_type |-> PRE_ATTACK],
     body |-> <<>>],
    [cls |-> "SlashDefendMult", base |-> "_GenericDamageMult",
     kw |-> [dmg_type |-> "slash", mod_type |-> PRE_DEFEND],
     body |-> <<>>],
    [cls |-> "PierceDefendMult", base |-> "_GenericDamageMult",
     kw |-> [dmg_type |-> "pierce", mod_type |-> PRE_DEFEND],
     body |-> <<>>],
    [cls |-> "BluntDefendAttackMult", base |-> "_GenericDamageMult",
     kw |-> [dmg_type |-> "blunt", mod_type |-> PRE_DEFEND],
     body |-> <<>>],
    [cls |-> "OccultDefendMult", base |-> "_GenericDamageMult",
     kw |-> [dmg_type |-> "occult", mod_type |-> PRE_DEFEND],
     body |-> <<>>],
    [cls |-> "FireDefendMult", base |-> "_GenericDamageMult",
     kw |-> [dmg_type |-> "fire", mod_type |-> PRE_DEFEND],
     body |-> <<>>],
    [cls |-> "AcidDefendMult", base |-> "_GenericDamageMult",
     kw |-> [dmg_type |-> "acid", mod_type |-> PRE_DEFEND],
     body |-> <<>>],
    [cls |-> "FreezeDefendMult", base |-> "_GenericDamageMult",
     kw |-> [dmg_type |-> "freeze", mod_type |-> PRE_DEFEND],
     body |-> <<>>],
    [cls |-> "ElectricDefendMult", base |-> "_GenericDamageMult",
     kw |-> [dmg_type |-> "electric", mod_type |-> PRE_DEFEND],
     body |-> <<>>],
    [cls |-> "SlashAttackBonus", base |-> "_GenericDamageBonus",
     kw |-> [dmg_type |-> "slash", mod_type |-> PRE_ATTACK],
     body |-> <<>>],
    [cls |-> "PierceAttackBonus", base |-> "_GenericDamageBonus",
     kw |-> [dmg_type |-> "pierce", mod_type |-> PRE_ATTACK],
     body |-> <<>>],
    [cls |-> "BluntAttackAttackBonus", base |-> "_GenericDamageBonus",
     kw |-> [dmg_type |-> "blunt", mod_type |-> PRE_ATTACK],
     body |-> <<>>],
    [cls |-> "OccultAttackBonus", base |-> "_GenericDamageBonus",
     kw |-> [dmg_type |-> "occult", mod_type |-> PRE_ATTACK],
     body |-> <<>>],
    [cls |-> "FireAttackBonus", base |-> "_GenericDamageBonus",
     kw |-> [dmg_type |-> "fire", mod_type |-> PRE_ATTACK],
     body |-> <<>>],
    [cls |-> "AcidAttackBonus", base |-> "_GenericDamageBonus",
     kw |-> [dmg_type |-> "acid", mod_type |-> PRE_ATTACK],
     body |-> <<>>],
    [cls |-> "FreezeAttackBonus", base |-> "_GenericDamageBonus",
     kw |-> [dmg_type |-> "freeze", mod_type |-> PRE_ATTACK],
     body |-> <<>>],
    [cls |-> "ElectricAttackBonus", base |-> "_GenericDamageBonus",
     kw |-> [dmg_type |-> "electric", mod_type |-> PRE_ATTACK],
     body |-> <<>>],
    [cls |-> "SlashDefendBonus", base |-> "_GenericDamageBonus",
     kw |-> [dmg_type |-> "slash", mod_type |-> PRE_DEFEND],
     body |-> <<>>],
    [cls |-> "PierceDefendBonus", base |-> "_GenericDamageBonus",
     kw |-> [dmg_type |-> "pierce", mod_type |-> PRE_DEFEND],
     body |-> <<>>],
    [cls |-> "BluntDefendAttackBonus", base |-> "_GenericDamageBonus",
     kw |-> [dmg_type |-> "blunt", mod_type |-> PRE_DEFEND],
     body |-> <<>>],
    [cls |-> "OccultDefendBonus", base |-> "_GenericDamageBonus",
     kw |-> [dmg_type |-> "occult", mod_type |-> PRE_DEFEND],
     body |-> <<>>],
    [cls |-> "FireDefendBonus", base |-> "_GenericDamageBonus",
     kw |-> [dmg_type |-> "fire", mod_type |-> PRE_DEFEND],
     body |-> <<>>],
    [cls |-> "AcidDefendBonus", base |-> "_GenericDamageBonus",
     kw |-> [dmg_type |-> "acid", mod_type |-> PRE_DEFEND],
     body |-> <<>>],
    [cls |-> "FreezeDefendBonus", base |-> "_GenericDamageBonus",
     kw |-> [dmg_type |-> "freeze", mod_type |-> PRE_DEFEND],
     body |-> <<>>],
    [cls |-> "ElectricDefendBonus", base |-> "_GenericDamageBonus",
     kw |-> [dmg_type |-> "electric", mod_type |-> PRE_DEFEND],
     body |-> <<>>],
    [cls |-> "FirstHitBonus", base |-> "Modifier",
     kw |-> [rarity |-> UNCOMMON],
     body |-> [TYPE |-> PRE_ATTACK, OP_ORDERING |-> 1, MAX_STRENGTH |-> 0, SCALING |-> 5, NAME |-> "Sneak attack"]],
    [cls |-> "KillAtPercentHealth", base |-> "Modifier",
     kw |-> [rarity |-> RARE],
     body |-> [TYPE |-> PRE_ATTACK, MAX_STRENGTH |-> 50, SCALING |-> 50, NAME |-> "Obliteration"]],
    [cls |-> "Berserk", base |-> "Modifier",
     kw |-> [rarity |-> UNCOMMON],
     body |-> [TYPE |-> PRE_ATTACK, MAX_STRENGTH |-> 60, SCALING |-> 20, NAME |-> "Berserk"]],
    [cls |-> "ChaosBrand", base |-> "Modifier",
     kw |-> [rarity |-> UNCOMMON],
     body |-> [TYPE |-> PRE_ATTACK, MAX_STRENGTH |-> 200, MIN_STRENGTH |-> 100, SCALING |-> 5, NAME |-> "Chaos Brand"]],
    [cls |-> "LuckyHit", base |-> "Modifier",
     kw |-> [rarity |-> UNCOMMON],
     body |-> [TYPE |-> PRE_ATTACK, MAX_STRENGTH |-> 500, MIN_STRENGTH |-> 100, SCALING |-> 6, NAME |-> "Lucky Hit"]],
    [cls |-> "PoisonTipped.PoisonProc", base |-> "Modifier",
     kw |-> <<>>,
     body |-> [TYPE |-> TURN_START]],
    [cls |-> "PoisonTipped", base |-> "Modifier",
     kw |-> [rarity |-> RARE],
     body |-> [TYPE |-> PRE_ATTACK, MAX_STRENGTH |-> 10, SCALING |-> 100, NAME |-> "Poison Tipped"]],
    [cls |-> "EldritchShield.TankHits", base |-> "Modifier",
     kw |-> <<>>,
     body |-> [TYPE |-> MID_DEFEND]],
    [cls |-> "EldritchShield", base |-> "Modifier",
     kw |-> [rarity |-> RARE],
     body |-> [TYPE |-> COMBAT_START, MAX_STRENGTH |-> 3, SCALING |-> 300, NAME |-> "Eldritch Shield"]],
    [cls |-> "Vampiric", base |-> "Modifier",
     kw |-> [rarity |-> LEGENDARY],
     body |-> [TYPE |-> POST_ATTACK, MAX_STRENGTH |-> 10, MIN_STRENGTH |-> 1, SCALING |-> 200, NAME |-> "Vampiric"]],
    [cls |-> "UnyieldingWill.FreeRevive", base |-> "Modifier",
     kw |-> <<>>,
     body |-> [TYPE |-> POST_DEFEND]],
    [cls |-> "UnyieldingWill", base |-> "Modifier",
     kw |-> [rarity |-> LEGENDARY],
     body |-> [TYPE |-> COMBAT_START, MAX_STRENGTH |-> 2, MIN_STRENGTH |-> 1, SCALING |-> 800, NAME |-> "Unyielding Will"]],
    [cls |-> "BloodThirst", base |-> "Modifier",
     kw |-> [rarity |-> RARE],
     body |-> [TYPE |-> COMBAT_START, MAX_STRENGTH |-> 20, SCALING |-> 50, NAME |-> "Blood Thirst"]],
    [cls |-> "Blessed", base |-> "Modifier",
     kw |-> [rarity |-> UNCOMMON],
     body |-> [TYPE |-> MODIFY_MAX_HP, MAX_STRENGTH |-> 50, SCALING |-> 20, NAME |-> "Blessed"]],
    [cls |-> "Bashing", base |-> "Modifier",
     kw |-> [rarity |-> LEGENDARY],
     body |-> [TYPE |-> PRE_ATTACK, MAX_STRENGTH |-> 50, SCALING |-> 20, NAME |-> "Bashing"]],
    [cls |-> "Thorns", base |-> "Modifier",
     kw |-> [rarity |-> UNCOMMON],
     body |-> [TYPE |-> PRE_DEFEND, MAX_STRENGTH |-> 0, MIN_STRENGTH |-> 1, SCALING |-> 50, NAME |-> "Thorns"]],
    [cls |-> "FireAbsorb", base |-> "_GenericDamageAbsorb",
     kw |-> [dmg_type |-> "fire"],
     body |-> <<>>],
    [cls |-> "AcidAbsorb", base |-> "_GenericDamageAbsorb",
     kw |-> [dmg_type |-> "acid"],
     body |-> <<>>],
    [cls |-> "FreezeAbsorb", base |-> "_GenericDamageAbsorb",
     kw |-> [dmg_type |-> "freeze"],
     body |-> <<>>],
    [cls |-> "ElectricAbsorb", base |-> "_GenericDamageAbsorb",
     kw |-> [dmg_type |-> "electric"],
     body |-> <<>>],
    [cls |-> "RouletteAttack", base |-> "Modifier",
     kw |-> [rarity |-> RARE],
     body |-> [TYPE |-> PRE_ATTACK, MAX_STRENGTH |-> 0, MIN_STRENGTH |-> 1, SCALING |-> 35, NAME |-> "Roulette Attack"]],
    [cls |-> "IdiotGodBlessing.FreeRevive", base |-> "Modifier",
     kw |-> <<>>,
     body |-> [TYPE |-> POST_DEFEND]],
    [cls |-> "IdiotGodBlessing", base |-> "Modifier",
     kw |-> [rarity |-> LEGENDARY],
     body |-> [TYPE |-> COMBAT_START, MAX_STRENGTH |-> 100, MIN_STRENGTH |-> 10, SCALING |-> 50, NAME |-> "Idiot God Blessing"]],
    [cls |-> "Brutal", base |-> "Modifier",
     kw |-> [rarity |-> UNCOMMON],
     body |-> [TYPE |-> POST_ATTACK, MAX_STRENGTH |-> 0, MIN_STRENGTH |-> 1, SCALING |-> 30, NAME |-> "Brutality"]],
    [cls |-> "Ferocity", base |-> "Modifier",
     kw |-> [rarity |-> RARE],
     body |-> [TYPE |-> PRE_ATTACK, MAX_STRENGTH |-> 10, MIN_STRENGTH |-> 1, SCALING |-> 100, NAME |-> "Ferocity"]],
    [cls |-> "LambEmbrace", base |-> "Modifier",
     kw |-> [rarity |-> RARE],
     body |-> [TYPE |-> TURN_START, MAX_STRENGTH |-> 0, MIN_STRENGTH |-> 1, SCALING |-> 30, NAME |-> "Lamb's Embrace"]],
    [cls |-> "EldritchSynergy", base |-> "Modifier",
     kw |-> [rarity |-> LEGENDARY],
     body |-> [TYPE |-> PRE_ATTACK, MAX_STRENGTH |-> 0, MIN_STRENGTH |-> 1, SCALING |-> 40, NAME |-> "Eldritch Synergy"]],
    [cls |-> "Dread", base |-> "Modifier",
     kw |-> [rarity |-> UNCOMMON],
     body |-> [TYPE |-> TURN_START, MAX_STRENGTH |-> 0, MIN_STRENGTH |-> 1, SCALING |-> 15, NAME |-> "Dread Aura"]],
    [cls |-> "Akimbo", base |-> "Modifier",
     kw |-> [rarity |-> LEGENDARY],
     body |-> [TYPE |-> PRE_ATTACK, MAX_STRENGTH |-> 50, SCALING |-> 20, NAME |-> "Akimbo"]],
    [cls |-> "OccultAbsorb", base |-> "_GenericDamageAbsorb",
     kw |-> [dmg_type |-> "occult"],
     body |-> <<>>],
    [cls |-> "PlayerDamageMult", base |-> "Modifier",
     kw |-> [rarity |-> RARE],
     body |-> [TYPE |-> PRE_ATTACK, MAX_STRENGTH |-> 100, MIN_STRENGTH |-> 1, SCALING |-> 20, NAME |-> "Hearth-breaker"]],
    [cls |-> "AdditionalHelper.Helper", base |-> "Modifier",
     kw |-> <<>>,
     body |-> [TYPE |-> TURN_START]],
    [cls |-> "AdditionalHelper", base |-> "Modifier",
     kw |-> [rarity |-> LEGENDARY],
     body |-> [TYPE |-> COMBAT_START, SCALING |-> 3, NAME |-> "Shade Helper"]]
  >>


(***************************************************************************)
(* The attributes the body of class Modifier gives a value (lines 75-90).  *)
(* ID, TYPE, SCALING, NAME and DESCRIPTION are annotations only: reading   *)
(* them on a class that never set them raises AttributeError.  RARITY      *)
(* (None on Modifier) is kept as "absent" until registration sets it.      *)
(***************************************************************************)
ModifierAttrs == [OP_ORDERING |-> 0, MAX_STRENGTH |-> 0, MIN_STRENGTH |-> 1]

\* setattr(obj, a, v) on an attribute dictionary
SetAttr(r, a, v) == (a :> v) @@ r

\* d[k] = v on a dict
DictSet(d, k, v) == (k :> v) @@ d

(***************************************************************************)
(* Attribute lookup on a class: its own dictionary, then its base's, up to *)
(* Modifier.  The answer is <<v>>, or <<>> when no class on the way has it *)
(* (AttributeError).                                                       *)
(***************************************************************************)
RECURSIVE ClassAttr(_, _, _)
ClassAttr(C, cls, a) ==
  IF cls = "Modifier"
  THEN IF a \in DOMAIN ModifierAttrs THEN <<ModifierAttrs[a]>> ELSE <<>>
  ELSE IF a \in DOMAIN C[cls].attrs THEN <<C[cls].attrs[a]>>
  ELSE ClassAttr(C, C[cls].base, a)

\* str.capitalize() on the damage types the class statements use
Capitalize(s) ==
  CASE s = "slash" -> "Slash"
    [] s = "pierce" -> "Pierce"
    [] s = "blunt" -> "Blunt"
    [] s = "occult" -> "Occult"
    [] s = "fire" -> "Fire"
    [] s = "acid" -> "Acid"
    [] s = "freeze" -> "Freeze"
    [] s = "electric" -> "Electric"
    [] OTHER -> s

\* The registry as one value: what the import has built so far.
EmptyRegistry ==
  [LIST |-> <<>>,
   RARITY_INDEX |-> [r \in {COMMON, UNCOMMON, RARE, LEGENDARY} |-> <<>>],
   NAME_LUT |-> <<>>,
   classes |-> <<>>,
   exc |-> ""]

(***************************************************************************)
(* Modifier.__init_subclass__(cls, rarity): with a rarity, the class gets  *)
(* the next id and is entered in the list, its rarity bucket and the name  *)
(* index, statement by statement: an exception leaves what was done before.*)
(* `kw` holds rarity when the caller passed one (absent: None).            *)
(***************************************************************************)
MutIdAfterAppend(R, cls, kw) ==
  IF "rarity" \in DOMAIN kw
  THEN LET R1 == [R EXCEPT !.LIST = Append(@, cls)]
           R2 == [R1 EXCEPT !.classes[cls].attrs =
                    SetAttr(SetAttr(@, "ID", Len(R1.LIST)), "RARITY", kw.rarity)]
           name == ClassAttr(R2.classes, cls, "NAME")
       IN IF kw.rarity \notin DOMAIN R2.RARITY_INDEX
          THEN [R2 EXCEPT !.exc = "KeyError"]
          ELSE LET R3 == [R2 EXCEPT !.RARITY_INDEX[kw.rarity] = Append(@, cls)]
               IN IF name = <<>>
                  THEN [R3 EXCEPT !.exc = "AttributeError"]
                  ELSE [R3 EXCEPT !.NAME_LUT = DictSet(@, name[1], cls)]
  ELSE R

MutRegisterWithoutRarity(R, cls, kw) ==
  LET rarity == IF "rarity" \in DOMAIN kw THEN kw.rarity ELSE COMMON
      R1 == [R EXCEPT !.classes[cls].attrs =
               SetAttr(SetAttr(@, "ID", Len(R.LIST)), "RARITY", rarity),
                      !.LIST = Append(@, cls)]
      name == ClassAttr(R1.classes, cls, "NAME")
  IN IF rarity \notin DOMAIN R1.RARITY_INDEX
     THEN [R1 EXCEPT !.exc = "KeyError"]
     ELSE LET R2 == [R1 EXCEPT !.RARITY_INDEX[rarity] = Append(@, cls)]
          IN IF name = <<>>
             THEN [R2 EXCEPT !.exc = "AttributeError"]
             ELSE [R2 EXCEPT !.NAME_LUT = DictSet(@, name[1], cls)]

Modifier_init_subclass(R, cls, kw) ==
  IF "rarity" \in DOMAIN kw
  THEN LET modifier_id == Len(R.LIST)
           R1 == [R EXCEPT !.classes[cls].attrs =
                             SetAttr(SetAttr(@, "ID", modifier_id), "RARITY", kw.rarity),
                           !.LIST = Append(@, cls)]
           name == ClassAttr(R1.classes, cls, "NAME")
       IN IF kw.rarity \notin DOMAIN R1.RARITY_INDEX
          THEN [R1 EXCEPT !.exc = "KeyError"]
          ELSE LET R2 == [R1 EXCEPT !.RARITY_INDEX[kw.rarity] = Append(@, cls)]
               IN IF name = <<>>
                  THEN [R2 EXCEPT !.exc = "AttributeError"]
                  ELSE [R2 EXCEPT !.NAME_LUT = DictSet(@, name[1], cls)]
  ELSE R

(***************************************************************************)
(* The templates' __init_subclass__(cls, dmg_type, mod_type): the name is  *)
(* built from the damage type, the class is registered with the template's *)
(* rarity, then DAMAGE_TYPE and TYPE are set (DESCRIPTION is not modelled).*)
(***************************************************************************)
GenericInitSubclass(R, cls, kw, suffix, rarity, setsType) ==
  IF "dmg_type" \notin DOMAIN kw
  THEN [R EXCEPT !.exc = "ValueError"]
  ELSE LET R1 == [R EXCEPT !.classes[cls].attrs =
                      SetAttr(@, "NAME", Capitalize(kw.dmg_type) \o " " \o suffix)]
           R2 == Modifier_init_subclass(R1, cls, [rarity |-> rarity])
       IN IF R2.exc # "" THEN R2
          ELSE LET R3 == [R2 EXCEPT !.classes[cls].attrs =
                             SetAttr(@, "DAMAGE_TYPE", kw.dmg_type)]
               IN IF setsType /\ "mod_type" \in DOMAIN kw
                  THEN [R3 EXCEPT !.classes[cls].attrs = SetAttr(@, "TYPE", kw.mod_type)]
                  ELSE R3

IsPreAttack(kw) == "mod_type" \in DOMAIN kw /\ kw.mod_type = PRE_ATTACK

GenericDamageMult_init_subclass(R, cls, kw) ==
  GenericInitSubclass(R, cls, kw,
                      IF IsPreAttack(kw) THEN "Affinity" ELSE "Resistant",
                      COMMON, TRUE)

GenericDamageBonus_init_subclass(R, cls, kw) ==
  GenericInitSubclass(R, cls, kw,
                      IF IsPreAttack(kw) THEN "Optimized" ELSE "shielded",
                      COMMON, TRUE)

GenericDamageAbsorb_init_subclass(R, cls, kw) ==
  GenericInitSubclass(R, cls, kw, "Absorption", UNCOMMON, FALSE)

(***************************************************************************)
(* One class statement: the class object is created with the attributes of *)
(* its body, then the __init_subclass__ of its base runs with the          *)
(* statement's keywords.                                                   *)
(***************************************************************************)
DefineClass(R, d) ==
  LET R0 == [R EXCEPT !.classes =
                DictSet(@, d.cls, [base |-> d.base, attrs |-> d.body])]
  IN CASE d.base = "_GenericDamageMult" -> GenericDamageMult_init_subclass(R0, d.cls, d.kw)
       [] d.base = "_GenericDamageBonus" -> GenericDamageBonus_init_subclass(R0, d.cls, d.kw)
       [] d.base = "_GenericDamageAbsorb" -> GenericDamageAbsorb_init_subclass(R0, d.cls, d.kw)
       [] OTHER -> Modifier_init_subclass(R0, d.cls, d.kw)

(***************************************************************************)
(* The import runs the class statements lo..hi in order from registry R    *)
(* and stops at the first that raises.  (Halving only keeps the evaluation *)
(* shallow; the statements still run one after the other.)                 *)
(***************************************************************************)
RECURSIVE Import(_, _, _)
Import(R, lo, hi) ==
  IF lo > hi THEN R
  ELSE IF lo = hi THEN DefineClass(R, ClassDefs[lo])
  ELSE LET mid == (lo + hi) \div 2
           first == Import(R, lo, mid)
       IN IF first.exc # "" THEN first ELSE Import(first, mid + 1, hi)

\* The registry after the first n class statements.
RegistryAfter(n) == Import(EmptyRegistry, 1, n)

\* The registry once modifiers.py is imported ("Loaded N modifiers", line 946).
Loaded == RegistryAfter(Len(ClassDefs))

CatalogSize == Len(Loaded.LIST)

Registry == [LIST |-> _LIST, RARITY_INDEX |-> _RARITY_INDEX, NAME_LUT |-> _NAME_LUT,
             classes |-> classes, exc |-> ""]

SetRegistry(R) ==
  /\ _LIST' = R.LIST
  /\ _RARITY_INDEX' = R.RARITY_INDEX
  /\ _NAME_LUT' = R.NAME_LUT
  /\ classes' = R.classes

IsLoaded == defined = Len(ClassDefs)

Range(f) == {f[x] : x \in DOMAIN f}

(***************************** instances ***********************************)
\* Modifier.__init__(self, strength, duration=-1)
Modifier_init(cls, strength, duration) ==
  [cls |-> cls, strength |-> strength, duration |-> duration]

(***************************************************************************)
(* The record of the last call: the operation, the exception it raised ("" *)
(* for none), the instance it returned (0 for none), the level it was      *)
(* given, the instances compared, and the truth value it returned; for an  *)
(* apply: the instance, the context and the draws, the duration before the *)
(* call, whether a behaviour ran and the duration it found, the value      *)
(* returned, the lines logged and the caller's damage object afterwards.   *)
(***************************************************************************)
NoCall == [op |-> "", exc |-> "", obj |-> 0, level |-> 0,
           self |-> 0, other |-> 0, truth |-> FALSE,
           ctx |-> <<>>, rnd |-> <<>>, before |-> 0, ran |-> FALSE, entry |-> 0,
           kind |-> "none", dmg |-> <<>>, int |-> 0, logged |-> <<>>, dmgObj |-> <<>>,
           args |-> <<>>, pair |-> <<>>, pc |-> "", req_xp |-> 0, old |-> <<>>,
           bits |-> {}]

Call(op, exc, obj) ==
  [NoCall EXCEPT !.op = op, !.exc = exc, !.obj = obj]

\* how an instance came to be: the call, the level given to generate, the spawning instance
Made(by, level, parent) == [by |-> by, level |-> level, parent |-> parent]

\* list[i] of Python: a negative index counts from the end; <<>> for IndexError
ListGetItem(l, i) ==
  IF 0 <= i /\ i < Len(l) THEN <<l[i + 1]>>
  ELSE IF -Len(l) <= i /\ i < 0 THEN <<l[Len(l) + i + 1]>>
  ELSE <<>>

\* dict[k]: <<>> for KeyError
DictGetItem(d, k) == IF k \in DOMAIN d THEN <<d[k]>> ELSE <<>>

(***************************************************************************)
(* get_modifier / get_modifier_from_name: the class found is called with   *)
(* the strength, which makes a new instance (duration -1).  The outcome is *)
(* the heap after the call, the instance returned (0 for none) and the     *)
(* exception raised.                                                       *)
(***************************************************************************)
MutInstantiateCached(h, found, strength, lookupError) ==
  IF found = <<>>
  THEN [heap |-> h, obj |-> 0, exc |-> lookupError]
  ELSE IF \E o \in DOMAIN h : h[o] = Modifier_init(found[1], strength, -1)
  THEN [heap |-> h,
        obj |-> CHOOSE o \in DOMAIN h : h[o] = Modifier_init(found[1], strength, -1),
        exc |-> ""]
  ELSE [heap |-> Append(h, Modifier_init(found[1], strength, -1)),
        obj |-> Len(h) + 1, exc |-> ""]

Instantiate(h, found, strength, lookupError) ==
  IF found = <<>>
  THEN [heap |-> h, obj |-> 0, exc |-> lookupError]
  ELSE [heap |-> Append(h, Modifier_init(found[1], strength, -1)),
        obj |-> Len(h) + 1, exc |-> ""]

get_modifier(h, modifier_id, strength) ==
  Instantiate(h, ListGetItem(_LIST, modifier_id), strength, "IndexError")

get_modifier_from_name(h, modifier_name, strength) ==
  Instantiate(h, DictGetItem(_NAME_LUT, modifier_name), strength, "KeyError")

(***************************************************************************)
(* Modifier.generate(cls, level):                                          *)
(*   strength = cls.MIN_STRENGTH + int(level / cls.SCALING), replaced by   *)
(*   MAX_STRENGTH when that is not 0 and is exceeded; returns cls(strength)*)
(* SCALING is kept in tenths, so level / SCALING is (10 * level) / SCALING;*)
(* int() truncates towards zero.                                           *)
(***************************************************************************)
PyInt(num, den) == IF num >= 0 THEN num \div den ELSE 0 - ((0 - num) \div den)

MutGenerateNoCap(h, cls, level) ==
  LET mn == ClassAttr(classes, cls, "MIN_STRENGTH")
      sc == ClassAttr(classes, cls, "SCALING")
  IN IF sc = <<>> THEN [heap |-> h, obj |-> 0, exc |-> "AttributeError"]
     ELSE IF sc[1] = 0 THEN [heap |-> h, obj |-> 0, exc |-> "ZeroDivisionError"]
     ELSE [heap |-> Append(h, Modifier_init(cls, mn[1] + PyInt(10 * level, sc[1]), -1)),
           obj |-> Len(h) + 1, exc |-> ""]

MutGenerateWrapAtCap(h, cls, level) ==
  LET mn == ClassAttr(classes, cls, "MIN_STRENGTH")
      mx == ClassAttr(classes, cls, "MAX_STRENGTH")
      sc == ClassAttr(classes, cls, "SCALING")
  IN IF sc = <<>> THEN [heap |-> h, obj |-> 0, exc |-> "AttributeError"]
     ELSE IF sc[1] = 0 THEN [heap |-> h, obj |-> 0, exc |-> "ZeroDivisionError"]
     ELSE LET s0 == mn[1] + PyInt(10 * level, sc[1])
              s1 == IF (mx[1] # 0) /\ (s0 > mx[1]) THEN mn[1] ELSE s0
          IN [heap |-> Append(h, Modifier_init(cls, s1, -1)),
              obj |-> Len(h) + 1, exc |-> ""]

generate(h, cls, level) ==
  LET mn == ClassAttr(classes, cls, "MIN_STRENGTH")
      mx == ClassAttr(classes, cls, "MAX_STRENGTH")
      sc == ClassAttr(classes, cls, "SCALING")
  IN IF sc = <<>> THEN [heap |-> h, obj |-> 0, exc |-> "AttributeError"]
     ELSE IF sc[1] = 0 THEN [heap |-> h, obj |-> 0, exc |-> "ZeroDivisionError"]
     ELSE LET strength0 == mn[1] + PyInt(10 * level, sc[1])
              strength == IF (mx[1] # 0) /\ (strength0 > mx[1]) THEN mx[1] ELSE strength0
          IN [heap |-> Append(h, Modifier_init(cls, strength, -1)),
              obj |-> Len(h) + 1, exc |-> ""]

(***************************************************************************)
(* Modifier.__eq__(self, other): other = 0 stands for an object that is no *)
(* Modifier.  self.ID and other.ID are class attributes, set only by       *)
(* registration: reading one on a class without it raises AttributeError.  *)
(* `and` does not compare the strengths when the ids differ.               *)
(***************************************************************************)
MutEqWithDuration(h, self, other) ==
  IF other = 0 THEN [exc |-> "", truth |-> FALSE]
  ELSE LET a == ClassAttr(classes, h[self].cls, "ID")
           b == ClassAttr(classes, h[other].cls, "ID")
       IN IF a = <<>> \/ b = <<>> THEN [exc |-> "AttributeError", truth |-> FALSE]
          ELSE [exc |-> "",
                truth |-> (a[1] = b[1]) /\ (h[self].strength = h[other].strength)
                          /\ (h[self].duration = h[other].duration)]

Modifier_eq(h, self, other) ==
  IF other = 0 THEN [exc |-> "", truth |-> FALSE]
  ELSE LET a == ClassAttr(classes, h[self].cls, "ID")
           b == ClassAttr(classes, h[other].cls, "ID")
       IN IF a = <<>> \/ b = <<>> THEN [exc |-> "AttributeError", truth |-> FALSE]
          ELSE [exc |-> "",
                truth |-> (a[1] = b[1]) /\ (h[self].strength = h[other].strength)]

(***************************************************************************)
(* Double arithmetic.  get_fstrength returns strength / 100 as a double,   *)
(* and the behaviours take int(x * self.get_fstrength()): the quotient is  *)
(* rounded to 53 bits, the product is rounded to 53 bits, and int() drops  *)
(* the fraction.  Naturals wider than TLC's integers are kept as sequences *)
(* of limbs, least significant first.                                      *)
(***************************************************************************)
Limb == 16384

RECURSIVE MulLoop(_, _, _, _)
MulLoop(n, m, i, carry) ==
  IF i > Len(n)
  THEN IF carry = 0 THEN <<>> ELSE <<carry % Limb>> \o MulLoop(n, m, i, carry \div Limb)
  ELSE LET v == n[i] * m + carry
       IN <<v % Limb>> \o MulLoop(n, m, i + 1, v \div Limb)

\* n * m and n + a, for small m and a
MulSmall(n, m) == MulLoop(n, m, 1, 0)

AddSmall(n, a) == MulLoop(n, 1, 1, a)

RECURSIVE DivLoop(_, _, _, _)
DivLoop(n, m, i, r) ==
  IF i = 0 THEN [q |-> <<>>, r |-> r]
  ELSE LET cur == r * Limb + n[i]
           rest == DivLoop(n, m, i - 1, cur % m)
       IN [q |-> Append(rest.q, cur \div m), r |-> rest.r]

\* quotient and remainder of n by a small m
DivSmall(n, m) == DivLoop(n, m, Len(n), 0)

RECURSIVE Pow2(_)
Pow2(k) == IF k = 0 THEN 1 ELSE 2 * Pow2(k - 1)

\* n * 2^60: four limbs of 14 bits and 4 bits more
Shl60(n) == <<0, 0, 0, 0>> \o MulSmall(n, 16)

\* floor(n / 2^k): whole limbs first
RECURSIVE Shr(_, _)
Shr(n, k) ==
  IF n = <<>> THEN <<>>
  ELSE IF k >= 14 THEN Shr(Tail(n), k - 14)
  ELSE DivSmall(n, Pow2(k)).q

\* n >= 2^53: bit 53 is bit 11 of the fourth limb
Above53Bits(n) == \E i \in DOMAIN n : (i > 4 /\ n[i] > 0) \/ (i = 4 /\ n[i] >= 2048)

IsOdd(n) == n # <<>> /\ n[1] % 2 = 1

RECURSIVE ToInt(_, _)
ToInt(n, i) == IF i > Len(n) THEN 0 ELSE n[i] + Limb * ToInt(n, i + 1)

(***************************************************************************)
(* Rounding to nearest, ties to even: n is shifted right until it fits 53  *)
(* bits; guard is the last bit dropped, sticky tells whether anything      *)
(* below it was not 0.  The answer is m * 2^shift.                         *)
(***************************************************************************)
RECURSIVE RoundTo53(_, _, _, _)
RoundTo53(n, guard, sticky, shift) ==
  IF Above53Bits(n)
  THEN LET d == DivSmall(n, 2)
       IN RoundTo53(d.q, d.r = 1, sticky \/ guard, shift + 1)
  ELSE [m |-> IF guard /\ (sticky \/ IsOdd(n)) THEN AddSmall(n, 1) ELSE n,
        shift |-> shift]

\* the double nearest to num / den, as m / 2^t   (1 <= num, den = 100)
DoubleQuotient(num, den) ==
  LET d == DivSmall(Shl60(<<num % Limb, num \div Limb>>), den)
      r == RoundTo53(d.q, FALSE, d.r # 0, 0)
  IN [m |-> r.m, t |-> 60 - r.shift]

\* Modifier.get_fstrength: self.strength / 100
get_fstrength(strength) == DoubleQuotient(strength, 100)

\* int(x * f) for an int x >= 0 and a double f = m / 2^t
IntOfProduct(x, f) ==
  LET r == RoundTo53(MulSmall(f.m, x), FALSE, FALSE, 0)
  IN ToInt(Shr(r.m, f.t - r.shift), 1)

(****************************** actors *************************************)
Actors == {"a1", "a2"}

\* a1 is a Player, a2 is not; both start a combat at full health
InitActors ==
  [a \in Actors |-> [hp |-> MaxHP, max_hp |-> MaxHP, timed_modifiers |-> <<>>,
                     is_player |-> (a = "a1"), secondary |-> "none", artifacts |-> 0]]

(************************** classes.py: records ****************************)
\* Guild.MAX_LEVEL: guilds.max_level of the content metadata
MAX_LEVEL == 10

\* Guild(guild_id, name, level, description, founder, ...): the level and the
\* founder, a Player of whom the money matters here
Guild(level, money) == [level |-> level, founder |-> [money |-> money]]

\* Player(player_id, name, description, guild, level, xp, money, progress,
\* gear_level, home_level): guild is <<>> for None, else <<the Guild>>
NoPlayer == [level |-> 1, xp |-> 0, money |-> 0, gear_level |-> 0, home_level |-> 0,
             guild |-> <<>>]

(***************************** scenarios ***********************************)
\* what the caller of one run works with; a specification's Init fills in its part.
\* damage: one more damage value the contexts may hold; max_hp: the actors' max
\* HP; hp_cap: the most an overheal may leave; hits: what a hit may take away
NoScen == [byId |-> FALSE, byName |-> FALSE, id |-> 0, name |-> "", strength |-> 1,
           cls |-> "", duration |-> -1, level |-> 0,
           clsB |-> "", strengthB |-> 1, durationB |-> -1,
           secondary |-> "none", artifacts |-> 0, extra |-> <<>>,
           equip |-> <<>>, phase |-> PRE_ATTACK, absent |-> {}, objs |-> MaxObjs,
           watch |-> "", player |-> NoPlayer, target |-> {},
           damage |-> <<>>, max_hp |-> MaxHP, hp_cap |-> HpCap, hits |-> 1 .. MaxHP]

(************************* import and lookups ******************************)
\* the next class statement of modifiers.py runs
DefineNext ==
  /\ defined < Len(ClassDefs)
  /\ call.exc = ""
  /\ LET R == DefineClass(Registry, ClassDefs[defined + 1])
     IN /\ SetRegistry(R)
        /\ defined' = (IF R.exc = "" THEN defined + 1 ELSE defined)
        /\ call' = Call("class", R.exc, 0)
  /\ UNCHANGED <<restvars, heap, origin, actors, scen, tally>>

\* a class statement run after the import: a new subclass of Modifier
DefineExtra ==
  /\ IsLoaded
  /\ scen.extra # <<>>
  /\ scen.extra[1].cls \notin DOMAIN classes
  /\ LET R == DefineClass(Registry, scen.extra[1])
     IN /\ SetRegistry(R)
        /\ call' = Call("class", R.exc, 0)
  /\ UNCHANGED <<restvars, defined, heap, origin, actors, scen, tally>>

\* the outcome r of a call that may have made an instance
Returned(op, r, level) ==
  /\ heap' = r.heap
  /\ origin' = (IF r.obj = 0 THEN origin ELSE Append(origin, Made(op, level, 0)))
  /\ call' = [Call(op, r.exc, r.obj) EXCEPT !.level = level]

GetModifier ==
  /\ IsLoaded
  /\ scen.byId
  /\ Len(heap) < MaxObjs
  /\ Returned("get_modifier", get_modifier(heap, scen.id, scen.strength), 0)
  /\ UNCHANGED <<restvars, regvars, actors, scen, tally>>

GetModifierFromName ==
  /\ IsLoaded
  /\ scen.byName
  /\ Len(heap) < MaxObjs
  /\ Returned("get_modifier_from_name",
              get_modifier_from_name(heap, scen.name, scen.strength), 0)
  /\ UNCHANGED <<restvars, regvars, actors, scen, tally>>

\* cls.generate(level), for the scenario's level and the next one
Generate ==
  /\ IsLoaded
  /\ scen.cls # ""
  /\ Len(heap) < MaxObjs
  /\ \E level \in {scen.level, scen.level + 1} :
       Returned("generate", generate(heap, scen.cls, level), level)
  /\ UNCHANGED <<restvars, regvars, actors, scen, tally>>

\* cls(strength, duration): the constructor called directly
Construct ==
  /\ IsLoaded
  /\ scen.cls # ""
  /\ Len(heap) < MaxObjs
  /\ \A o \in DOMAIN origin : origin[o].by # "init"
  /\ Returned("init",
              [heap |-> Append(heap, Modifier_init(scen.cls, scen.strength, scen.duration)),
               obj |-> Len(heap) + 1, exc |-> ""], 0)
  /\ UNCHANGED <<restvars, regvars, actors, scen, tally>>

\* the same for the scenario's second class
ConstructOther ==
  /\ IsLoaded
  /\ scen.clsB # ""
  /\ Len(heap) < MaxObjs
  /\ \E o \in DOMAIN origin : origin[o].by = "init"
  /\ \A o \in DOMAIN origin : origin[o].by # "init_other"
  /\ Returned("init_other",
              [heap |-> Append(heap, Modifier_init(scen.clsB, scen.strengthB, scen.durationB)),
               obj |-> Len(heap) + 1, exc |-> ""], 0)
  /\ UNCHANGED <<restvars, regvars, actors, scen, tally>>

\* self == other, for two instances or for an instance and something that is no Modifier
Compare ==
  /\ IsLoaded
  /\ \E self \in DOMAIN heap, other \in {0} \cup DOMAIN heap :
       LET r == Modifier_eq(heap, self, other)
       IN call' = [Call("eq", r.exc, 0) EXCEPT !.truth = r.truth,
                                               !.self = self, !.other = other]
  /\ UNCHANGED <<restvars, regvars, heap, origin, actors, scen, tally>>

(***************************** inputs **************************************)
\* what a caller may look up: every id around the catalog, every name and some unknown ones
LookupStrengths == {1, 50}

IdInputs == (0 - CatalogSize - IdMargin) .. (CatalogSize + IdMargin - 1)

UnknownNames == {"", "Unknown", "slash affinity", "Sneak Attack", "Absorption"}

NameInputs == DOMAIN Loaded.NAME_LUT \cup UnknownNames

LookupScens ==
  {[NoScen EXCEPT !.byId = TRUE, !.id = i, !.strength = s] :
      i \in IdInputs, s \in LookupStrengths}
  \cup
  {[NoScen EXCEPT !.byName = TRUE, !.name = n, !.strength = s] :
      n \in NameInputs, s \in LookupStrengths}

\* every class of modifiers.py below Modifier; those that can be instantiated and applied
AllClasses == DOMAIN Loaded.classes

Templates == {"_GenericDamageMult", "_GenericDamageBonus", "_GenericDamageAbsorb"}

Variants == AllClasses \ Templates

GenScens ==
  {[NoScen EXCEPT !.cls = c, !.level = l] : c \in AllClasses, l \in 0 .. MaxLevel}

EqScens ==
  {[NoScen EXCEPT !.cls = a, !.clsB = b, !.strengthB = s, !.durationB = d] :
      a \in Variants, b \in Variants, s \in {1, 2}, d \in {-1, 3}}


(***************************************************************************)
(*                 the collaborators of the apply pipeline                 *)
(* combat_classes.py (Damage, CombatActor, CombatContainer) and the combat *)
(* side of Player are not among the sources: they are modelled from the    *)
(* description of the interfaces the engine consumes.                      *)
(***************************************************************************)
DamageTypes == {"slash", "pierce", "blunt", "occult", "fire", "acid", "freeze", "electric"}

\* Damage.get_empty()
Damage_get_empty == [t \in DamageTypes |-> 0]

RECURSIVE SumOver(_, _)
SumOver(f, S) == IF S = {} THEN 0 ELSE LET x == CHOOSE y \in S : TRUE
                                       IN f[x] + SumOver(f, S \ {x})

\* Damage.get_total_damage()
Damage_get_total_damage(d) == SumOver(d, DamageTypes)

\* Damage.scale(factor), the factor being num / den: every category scaled, rounded down
Damage_scale(d, num, den) == [t \in DamageTypes |-> PyInt(d[t] * num, den)]

\* Damage.scale_single_value(key, factor)
Damage_scale_single_value(d, key, num, den) ==
  [d EXCEPT ![key] = PyInt(d[key] * num, den)]

\* Damage.add_single_value(key, value)
Damage_add_single_value(d, key, value) == [d EXCEPT ![key] = d[key] + value]

\* Damage.apply_bonus(bonus): the bonus added to every category
Damage_apply_bonus(d, bonus) == [t \in DamageTypes |-> d[t] + bonus]

\* Damage.__add__
Damage_add(d, e) == [t \in DamageTypes |-> d[t] + e[t]]

\* CombatActor.modify_hp(amount, overheal): hp stays within 0 .. max hp, unless overheal
CombatActor_modify_hp(actor, amount, overheal) ==
  LET raw == actor.hp + amount
      low == IF raw < 0 THEN 0 ELSE raw
  IN [actor EXCEPT !.hp = IF (~overheal) /\ low > actor.max_hp THEN actor.max_hp ELSE low]

\* actor.hp_percent <= percent / 100   (hp_percent is hp / max hp)
HpPercentAtMost(actor, percent) == 100 * actor.hp <= percent * actor.max_hp

\* actor.hp_percent >= 1.0
HpFull(actor) == actor.hp >= actor.max_hp

\* CombatActor.is_dead()
CombatActor_is_dead(actor) == actor.hp = 0

(***************************************************************************)
(* ModifierContext: the dictionary handed to apply.  A key that is absent  *)
(* reads as None: "None" for an actor, <<>> for the damage and the value,  *)
(* FALSE for the log sink.                                                 *)
(***************************************************************************)
ModifierContext_get(ctx, key) == ctx[key]

(***************************************************************************)
(* The state a behaviour works on: the actors, the heap, the caller's      *)
(* damage object (its value after any change made in place), the lines     *)
(* handed to the log sink, the exception raised, the value returned: kind  *)
(* "none" (None), "damage" (dmg), "int" (int), the instance spawned (0 for *)
(* none), whether a behaviour ran and the duration it found on entry.      *)
(***************************************************************************)
Work(ctx) ==
  [actors |-> actors, heap |-> heap, dmgObj |-> ctx.damage, logged |-> <<>>,
   exc |-> "", kind |-> "none", dmg |-> Damage_get_empty, int |-> 0, spawned |-> 0,
   ran |-> FALSE, entry |-> 0]

Raise(W, e) == [W EXCEPT !.exc = e]

ReturnDamage(W, d) == [W EXCEPT !.kind = "damage", !.dmg = d]

ReturnInt(W, n) == [W EXCEPT !.kind = "int", !.int = n]

\* return context.get("damage"): None when the key is absent
ReturnContextDamage(W, ctx) ==
  IF ctx.damage = <<>> THEN W ELSE ReturnDamage(W, ctx.damage[1])

\* Modifier.write_to_log: nothing happens when the context holds no sink
write_to_log(W, ctx, text) ==
  IF ModifierContext_get(ctx, "context") THEN [W EXCEPT !.logged = Append(@, text)] ELSE W

\* a.modify_hp(amount, overheal); AttributeError when a is None
ModifyHp(W, a, amount, overheal) ==
  IF a = "None" THEN Raise(W, "AttributeError")
  ELSE [W EXCEPT !.actors[a] = CombatActor_modify_hp(@, amount, overheal)]

\* a.timed_modifiers.append(cls(strength, duration))
MutSpawnPrepends(W, a, cls, strength, duration) ==
  IF a = "None" THEN Raise(W, "AttributeError")
  ELSE [W EXCEPT !.heap = Append(@, Modifier_init(cls, strength, duration)),
                 !.actors[a].timed_modifiers = <<Len(W.heap) + 1>> \o @,
                 !.spawned = Len(W.heap) + 1]

Spawn(W, a, cls, strength, duration) ==
  IF a = "None" THEN Raise(W, "AttributeError")
  ELSE [W EXCEPT !.heap = Append(@, Modifier_init(cls, strength, duration)),
                 !.actors[a].timed_modifiers = Append(@, Len(W.heap) + 1),
                 !.spawned = Len(W.heap) + 1]

\* self.duration += 1
RestoreDuration(W, self) == [W EXCEPT !.heap[self].duration = @ + 1]

\* what comes after a step that may have raised
Then(W, next) == IF W.exc # "" THEN W ELSE next

(***************************************************************************)
(*                      the behaviours of the variants                     *)
(* Each takes the work state W, the instance self, the context and the     *)
(* random draws of the call, and gives the work state after it.  The text  *)
(* of a log line is cut down to its fixed part.                            *)
(***************************************************************************)
Strength(W, self) == W.heap[self].strength

DAMAGE_TYPE(W, self) == ClassAttr(classes, W.heap[self].cls, "DAMAGE_TYPE")[1]

\* write_to_log with a text that names actor a: the text is built first
LogNamed(W, ctx, a, text) ==
  IF a = "None" THEN Raise(W, "AttributeError") ELSE write_to_log(W, ctx, text)

\* damage.scale(factor) returned; AttributeError when the context holds no damage
ReturnScaled(W, ctx, num, den) ==
  IF ctx.damage = <<>> THEN Raise(W, "AttributeError")
  ELSE ReturnDamage(W, Damage_scale(ctx.damage[1], num, den))

GenericDamageMult_function(W, self, ctx) ==
  IF ctx.damage = <<>> THEN Raise(W, "AttributeError")
  ELSE ReturnDamage(W, Damage_scale_single_value(ctx.damage[1], DAMAGE_TYPE(W, self),
                                                 100 + Strength(W, self), 100))

GenericDamageBonus_function(W, self, ctx) ==
  IF ctx.damage = <<>> THEN Raise(W, "AttributeError")
  ELSE ReturnDamage(W, Damage_add_single_value(ctx.damage[1], DAMAGE_TYPE(W, self),
                                               Strength(W, self)))

GenericDamageAbsorb_function(W, self, ctx) ==
  LET defender == ModifierContext_get(ctx, "target")
  IN IF ctx.damage = <<>> THEN Raise(W, "AttributeError")
     ELSE LET element_damage == ctx.damage[1][DAMAGE_TYPE(W, self)]
              hp0 == IntOfProduct(element_damage, get_fstrength(Strength(W, self)))
              hp == IF hp0 = 0 THEN 1 ELSE hp0
          IN IF element_damage > 0
             THEN LET W1 == ModifyHp(W, defender, hp, TRUE)
                  IN Then(W1, write_to_log(W1, ctx, "heals HP from damage"))
             ELSE W

FirstHitBonus_function(W, self, ctx) ==
  LET target == ModifierContext_get(ctx, "other")
  IN IF target = "None" THEN Raise(W, "AttributeError")
     ELSE IF HpFull(W.actors[target])
          THEN LET W1 == write_to_log(W, ctx, "Sneak attack!")
               IN IF ctx.damage = <<>> THEN Raise(W1, "AttributeError")
                  ELSE ReturnDamage(W1, Damage_apply_bonus(ctx.damage[1], Strength(W, self)))
          ELSE ReturnContextDamage(W, ctx)

KillAtPercentHealth_function(W, self, ctx) ==
  LET target == ModifierContext_get(ctx, "other")
  IN IF target = "None" THEN Raise(W, "AttributeError")
     ELSE IF HpPercentAtMost(W.actors[target], Strength(W, self))
          THEN ReturnContextDamage(
                 write_to_log([W EXCEPT !.actors[target].hp = 0], ctx, "Obliteration."), ctx)
          ELSE ReturnContextDamage(W, ctx)

Berserk_function(W, self, ctx) ==
  LET attacker == ModifierContext_get(ctx, "supplier")
  IN IF attacker = "None" THEN Raise(W, "AttributeError")
     ELSE IF HpPercentAtMost(W.actors[attacker], Strength(W, self))
          THEN ReturnScaled(W, ctx, 2, 1)
          ELSE ReturnContextDamage(W, ctx)

\* scaling_factor = 0.8 + random.random() * strength / 100, the draw given in hundredths
ChaosBrand_function(W, self, ctx, rnd) ==
  ReturnScaled(write_to_log(W, ctx, "Chaos"), ctx,
               8000 + rnd.random * Strength(W, self), 10000)

LuckyHit_function(W, self, ctx, rnd) ==
  LET attacker == ModifierContext_get(ctx, "supplier")
  IN IF attacker = "None" THEN Raise(W, "AttributeError")
     ELSE IF rnd.roll > 8
          THEN ReturnScaled(write_to_log(W, ctx, "Lucky Hit!"), ctx, Strength(W, self), 100)
          ELSE ReturnContextDamage(W, ctx)

PoisonProc_function(W, self, ctx) ==
  LET target == ModifierContext_get(ctx, "entity")
      W1 == ModifyHp(W, target, 0 - Strength(W, self), FALSE)
  IN Then(W1, write_to_log(W1, ctx, "takes poison dmg"))

PoisonTipped_function(W, self, ctx) ==
  LET target == ModifierContext_get(ctx, "other")
      W1 == Spawn(W, target, "PoisonTipped.PoisonProc",
                  Strength(W, self), Strength(W, self) * 2)
  IN Then(W1, ReturnContextDamage(W1, ctx))

MutTankHitsNoRestore(W, self, ctx) ==
  LET target == ModifierContext_get(ctx, "target")
  IN IF ctx.damage = <<>> THEN Raise(W, "AttributeError")
     ELSE IF Damage_get_total_damage(ctx.damage[1]) > 1
          THEN LET W1 == LogNamed(W, ctx, target, "shield nullifies the hit.")
               IN Then(W1, ReturnDamage(W1, Damage_get_empty))
          ELSE ReturnDamage(W, ctx.damage[1])

TankHits_function(W, self, ctx) ==
  LET target == ModifierContext_get(ctx, "target")
  IN IF ctx.damage = <<>> THEN Raise(W, "AttributeError")
     ELSE IF Damage_get_total_damage(ctx.damage[1]) > 1
          THEN LET W1 == IF W.heap[self].duration = 0
                         THEN LogNamed(W, ctx, target, "shield nullifies the hit and it breaks!")
                         ELSE LogNamed(W, ctx, target, "shield nullifies the hit.")
               IN Then(W1, ReturnDamage(W1, Damage_get_empty))
          ELSE ReturnDamage(RestoreDuration(W, self), ctx.damage[1])

EldritchShield_function(W, self, ctx) ==
  LET entity == ModifierContext_get(ctx, "entity")
      W1 == Spawn(W, entity, "EldritchShield.TankHits", 0, Strength(W, self))
  IN Then(W1, ReturnInt(write_to_log(W1, ctx, "An Eldritch Shield forms"), 0))

Vampiric_function(W, self, ctx) ==
  LET attacker == ModifierContext_get(ctx, "supplier")
  IN IF ctx.damage = <<>> THEN Raise(W, "AttributeError")
     ELSE LET healing0 == IntOfProduct(Damage_get_total_damage(ctx.damage[1]),
                                       get_fstrength(Strength(W, self)))
              healing == IF healing0 = 0 THEN 1 ELSE healing0
              W1 == ModifyHp(W, attacker, healing, FALSE)
          IN Then(W1, write_to_log(W1, ctx, "leeches HP"))

MutWillNoRestore(W, self, ctx) ==
  LET defender == ModifierContext_get(ctx, "other")
  IN IF defender = "None" THEN Raise(W, "AttributeError")
     ELSE IF W.actors[defender].hp = 0
          THEN ModifyHp(write_to_log(W, ctx, "still stands."), defender,
                        PyInt(W.actors[defender].max_hp, 2), FALSE)
          ELSE W

UnyieldingWill_FreeRevive_function(W, self, ctx) ==
  LET defender == ModifierContext_get(ctx, "other")
  IN IF defender = "None" THEN Raise(W, "AttributeError")
     ELSE IF W.actors[defender].hp = 0
          THEN ModifyHp(write_to_log(W, ctx, "still stands."), defender,
                        PyInt(W.actors[defender].max_hp, 2), FALSE)
          ELSE RestoreDuration(W, self)

UnyieldingWill_function(W, self, ctx) ==
  Spawn(W, ModifierContext_get(ctx, "entity"), "UnyieldingWill.FreeRevive",
        1, Strength(W, self))

BloodThirst_function(W, self, ctx) ==
  LET W1 == ModifyHp(W, ModifierContext_get(ctx, "entity"), Strength(W, self), TRUE)
  IN Then(W1, write_to_log(W1, ctx, "blood thirst heals"))

Blessed_function(W, self, ctx) ==
  IF ctx.value = <<>> THEN Raise(W, "TypeError")
  ELSE ReturnInt(W, PyInt(ctx.value[1] * (100 + Strength(W, self)), 100))

\* Bashing and Akimbo: a bonus for a Player whose secondary slot holds the wanted item
SecondarySlot_function(W, self, ctx, wanted) ==
  LET attacker == ModifierContext_get(ctx, "supplier")
  IN IF attacker # "None" /\ W.actors[attacker].is_player
     THEN IF W.actors[attacker].secondary = wanted
          THEN ReturnScaled(W, ctx, 100 + Strength(W, self), 100)
          ELSE ReturnContextDamage(W, ctx)
     ELSE ReturnScaled(W, ctx, 12, 10)

Bashing_function(W, self, ctx) == SecondarySlot_function(W, self, ctx, "shield")

Akimbo_function(W, self, ctx) == SecondarySlot_function(W, self, ctx, "weapon")

Thorns_function(W, self, ctx) ==
  LET W1 == ModifyHp(W, ModifierContext_get(ctx, "other"), 0 - Strength(W, self), FALSE)
  IN Then(W1, ReturnContextDamage(write_to_log(W1, ctx, "loses HP from thorns"), ctx))

\* the drawn category of the caller's damage object is overwritten, then a sum is returned
RouletteAttack_function(W, self, ctx, rnd) ==
  IF ctx.damage = <<>> THEN Raise(W, "AttributeError")
  ELSE LET changed == [ctx.damage[1] EXCEPT ![rnd.key] = Strength(W, self)]
       IN ReturnDamage([W EXCEPT !.dmgObj = <<changed>>],
                       Damage_add(changed, Damage_get_empty))

MutFreeReviveNoRestore(W, self, ctx) ==
  LET entity == ModifierContext_get(ctx, "other")
  IN IF entity = "None" THEN Raise(W, "AttributeError")
     ELSE IF CombatActor_is_dead(W.actors[entity])
          THEN write_to_log(ModifyHp(W, entity,
                                     IntOfProduct(W.actors[entity].max_hp,
                                                  get_fstrength(Strength(W, self))),
                                     FALSE),
                            ctx, "The Idiot God blessing revives")
          ELSE W

IdiotGodBlessing_FreeRevive_function(W, self, ctx) ==
  LET entity == ModifierContext_get(ctx, "other")
  IN IF entity = "None" THEN Raise(W, "AttributeError")
     ELSE IF CombatActor_is_dead(W.actors[entity])
          THEN write_to_log(ModifyHp(W, entity,
                                     IntOfProduct(W.actors[entity].max_hp,
                                                  get_fstrength(Strength(W, self))),
                                     FALSE),
                            ctx, "The Idiot God blessing revives")
          ELSE RestoreDuration(W, self)

IdiotGodBlessing_function(W, self, ctx) ==
  LET W1 == Spawn(W, ModifierContext_get(ctx, "entity"), "IdiotGodBlessing.FreeRevive",
                  Strength(W, self), 1)
  IN Then(W1, ReturnInt(W1, 0))

Brutal_function(W, self, ctx) ==
  LET W1 == ModifyHp(W, ModifierContext_get(ctx, "other"), 0 - Strength(W, self), FALSE)
  IN Then(W1, write_to_log(W1, ctx, "is brutalized"))

Ferocity_function(W, self, ctx) ==
  LET W1 == ModifyHp(W, ModifierContext_get(ctx, "supplier"), 0 - Strength(W, self), FALSE)
  IN Then(W1, ReturnScaled(write_to_log(W1, ctx, "loses HP from the ferocity"), ctx,
                           10 + Strength(W, self), 10))

LambEmbrace_function(W, self, ctx) ==
  LET W1 == ModifyHp(W, ModifierContext_get(ctx, "entity"), Strength(W, self), FALSE)
  IN Then(W1, write_to_log(W1, ctx, "regenerates HP"))

EldritchSynergy_function(W, self, ctx) ==
  LET entity == ModifierContext_get(ctx, "supplier")
  IN IF entity # "None" /\ W.actors[entity].is_player
     THEN IF W.actors[entity].artifacts > 0
          THEN ReturnScaled(W, ctx, 100 + Strength(W, self) * W.actors[entity].artifacts, 100)
          ELSE ReturnContextDamage(W, ctx)
     ELSE ReturnScaled(W, ctx, 15, 10)

Dread_function(W, self, ctx) ==
  LET W1 == ModifyHp(W, ModifierContext_get(ctx, "opponent"), 0 - Strength(W, self), FALSE)
  IN Then(W1, write_to_log(W1, ctx, "takes Dread damage"))

PlayerDamageMult_function(W, self, ctx) ==
  LET target == ModifierContext_get(ctx, "other")
  IN IF target # "None" /\ W.actors[target].is_player
     THEN ReturnScaled(W, ctx, 100 + Strength(W, self), 100)
     ELSE ReturnContextDamage(W, ctx)

Helper_function(W, self, ctx, rnd) ==
  IF rnd.randint < 40
  THEN LET entity == ModifierContext_get(ctx, "entity")
           W1 == ModifyHp(W, ModifierContext_get(ctx, "opponent"),
                          0 - Strength(W, self), FALSE)
       IN Then(W1, LogNamed(W1, ctx, entity, "Shade Helper attacks"))
  ELSE W

AdditionalHelper_function(W, self, ctx) ==
  LET W1 == Spawn(W, ModifierContext_get(ctx, "entity"), "AdditionalHelper.Helper",
                  Strength(W, self), -1)
  IN Then(W1, ReturnInt(write_to_log(W1, ctx, "A Sahde Helper spawns"), 0))

\* the base class of a class
BaseOf(cls) == classes[cls].base

(***************************************************************************)
(* self.function(context): the method of the instance's class, or the one  *)
(* it inherits from its template.  `ran` and `entry` note that a behaviour *)
(* ran and the duration the instance had when it started.                  *)
(***************************************************************************)
function(W0, self, ctx, rnd) ==
  LET W == [W0 EXCEPT !.ran = TRUE, !.entry = W0.heap[self].duration]
      cls == W.heap[self].cls
  IN CASE cls \in Templates -> Raise(W, "AttributeError")   \* no DAMAGE_TYPE on a template
       [] BaseOf(cls) = "_GenericDamageMult" -> GenericDamageMult_function(W, self, ctx)
       [] BaseOf(cls) = "_GenericDamageBonus" -> GenericDamageBonus_function(W, self, ctx)
       [] BaseOf(cls) = "_GenericDamageAbsorb" -> GenericDamageAbsorb_function(W, self, ctx)
       [] cls = "FirstHitBonus" -> FirstHitBonus_function(W, self, ctx)
       [] cls = "KillAtPercentHealth" -> KillAtPercentHealth_function(W, self, ctx)
       [] cls = "Berserk" -> Berserk_function(W, self, ctx)
       [] cls = "ChaosBrand" -> ChaosBrand_function(W, self, ctx, rnd)
       [] cls = "LuckyHit" -> LuckyHit_function(W, self, ctx, rnd)
       [] cls = "PoisonTipped.PoisonProc" -> PoisonProc_function(W, self, ctx)
       [] cls = "PoisonTipped" -> PoisonTipped_function(W, self, ctx)
       [] cls = "EldritchShield.TankHits" -> TankHits_function(W, self, ctx)
       [] cls = "EldritchShield" -> EldritchShield_function(W, self, ctx)
       [] cls = "Vampiric" -> Vampiric_function(W, self, ctx)
       [] cls = "UnyieldingWill.FreeRevive" -> UnyieldingWill_FreeRevive_function(W, self, ctx)
       [] cls = "UnyieldingWill" -> UnyieldingWill_function(W, self, ctx)
       [] cls = "BloodThirst" -> BloodThirst_function(W, self, ctx)
       [] cls = "Blessed" -> Blessed_function(W, self, ctx)
       [] cls = "Bashing" -> Bashing_function(W, self, ctx)
       [] cls = "Thorns" -> Thorns_function(W, self, ctx)
       [] cls = "RouletteAttack" -> RouletteAttack_function(W, self, ctx, rnd)
       [] cls = "IdiotGodBlessing.FreeRevive" -> IdiotGodBlessing_FreeRevive_function(W, self, ctx)
       [] cls = "IdiotGodBlessing" -> IdiotGodBlessing_function(W, self, ctx)
       [] cls = "Brutal" -> Brutal_function(W, self, ctx)
       [] cls = "Ferocity" -> Ferocity_function(W, self, ctx)
       [] cls = "LambEmbrace" -> LambEmbrace_function(W, self, ctx)
       [] cls = "EldritchSynergy" -> EldritchSynergy_function(W, self, ctx)
       [] cls = "Dread" -> Dread_function(W, self, ctx)
       [] cls = "Akimbo" -> Akimbo_function(W, self, ctx)
       [] cls = "PlayerDamageMult" -> PlayerDamageMult_function(W, self, ctx)
       [] cls = "AdditionalHelper.Helper" -> Helper_function(W, self, ctx, rnd)
       [] cls = "AdditionalHelper" -> AdditionalHelper_function(W, self, ctx)
       [] OTHER -> Raise(W, "NotImplementedError")

(***************************************************************************)
(* Modifier.apply(self, context):                                          *)
(*   if self.duration > 0: self.duration -= 1                              *)
(*   elif self.duration == 0: return None                                  *)
(*   return self.function(context)                                         *)
(***************************************************************************)
MutApplyStopsAtZero(W, self, ctx, rnd) ==
  IF W.heap[self].duration > 1
  THEN function([W EXCEPT !.heap[self].duration = @ - 1], self, ctx, rnd)
  ELSE IF W.heap[self].duration = 1
  THEN [W EXCEPT !.heap[self].duration = 0]
  ELSE IF W.heap[self].duration = 0
  THEN W
  ELSE function(W, self, ctx, rnd)

MutApplyIgnoresExpiry(W, self, ctx, rnd) ==
  IF W.heap[self].duration > 0
  THEN function([W EXCEPT !.heap[self].duration = @ - 1], self, ctx, rnd)
  ELSE function(W, self, ctx, rnd)

Modifier_apply(W, self, ctx, rnd) ==
  IF W.heap[self].duration > 0
  THEN function([W EXCEPT !.heap[self].duration = @ - 1], self, ctx, rnd)
  ELSE IF W.heap[self].duration = 0
  THEN W
  ELSE function(W, self, ctx, rnd)

(***************************** combat **************************************)
\* a context: x deals the action and holds the effect, y receives it
Context(x, y, damage, sink) ==
  [supplier |-> x, entity |-> x, other |-> y, target |-> y, opponent |-> y,
   damage |-> damage, context |-> sink, value |-> <<10 * MaxHP>>]

\* no damage, 10 of each category, and the scenario's own damage value
DamageInputs == {Damage_get_empty, [t \in DamageTypes |-> 10]} \cup Range(scen.damage)

\* the keys a context may hold
ContextKeys == {"supplier", "entity", "other", "target", "opponent", "damage", "context", "value"}

\* the context c built without the keys of K: get gives None for them
Without(c, K) ==
  [k \in DOMAIN c |->
     IF k \notin K THEN c[k]
     ELSE IF k \in {"damage", "value"} THEN <<>>
     ELSE IF k = "context" THEN FALSE
     ELSE "None"]

\* either actor acts on the other, with each damage and a log sink; once without a
\* sink; the caller leaves out the keys the scenario names
Contexts ==
  {Without(c, scen.absent) :
     c \in {x \in {Context(a, b, <<d>>, TRUE) : a \in Actors, b \in Actors, d \in DamageInputs} :
              x.supplier # x.other}
           \cup {Context("a1", "a2", <<[t \in DamageTypes |-> 10]>>, FALSE)}}

\* the draws of random and of the actor's die that a behaviour may take
NoDraw == [random |-> 0, roll |-> 1, randint |-> 1, key |-> "slash"]

RandomDraws(cls) ==
  CASE cls = "ChaosBrand" -> {[NoDraw EXCEPT !.random = r] : r \in {0, 50, 99}}
    [] cls = "LuckyHit" -> {[NoDraw EXCEPT !.roll = r] : r \in {1, 8, 9, 10}}
    [] cls = "AdditionalHelper.Helper" ->
         {[NoDraw EXCEPT !.randint = r] : r \in {1, 39, 40, 100}}
    [] cls = "RouletteAttack" -> {[NoDraw EXCEPT !.key = k] : k \in DamageTypes}
    [] OTHER -> {NoDraw}

\* the history of the first instance of the scenario's watched class: an apply of
\* it meets the trigger of the effect or not, and the effect acts or not
NoTally == [seen |-> 0, acted |-> 0, idle |-> 0]

Watched(self) ==
  /\ heap[self].cls = scen.watch
  /\ \A j \in 1 .. (self - 1) : heap[j].cls # scen.watch

\* what the effect waits for: a hit of more than 1 point, a turn start (any apply
\* of a poison), a defender at 0 HP
Trigger(self, ctx) ==
  IF heap[self].cls = "EldritchShield.TankHits"
  THEN ctx.damage # <<>> /\ Damage_get_total_damage(ctx.damage[1]) > 1
  ELSE IF heap[self].cls = "PoisonTipped.PoisonProc"
  THEN TRUE
  ELSE ctx.other # "None" /\ actors[ctx.other].hp = 0

\* what the effect does: the hit is answered with an empty damage, the poisoned
\* actor loses HP, the defender is healed
Acted(W, self, ctx) ==
  IF heap[self].cls = "EldritchShield.TankHits"
  THEN /\ W.kind = "damage" /\ W.dmg = Damage_get_empty
       /\ ctx.damage # <<>> /\ ctx.damage[1] # Damage_get_empty
  ELSE IF heap[self].cls = "PoisonTipped.PoisonProc"
  THEN ctx.entity # "None" /\ W.actors[ctx.entity].hp < actors[ctx.entity].hp
  ELSE ctx.other # "None" /\ W.actors[ctx.other].hp > actors[ctx.other].hp

Tallied(W, self, ctx) ==
  IF ~Watched(self) THEN tally
  ELSE [seen |-> tally.seen + (IF Trigger(self, ctx) THEN 1 ELSE 0),
        idle |-> tally.idle + (IF Trigger(self, ctx) THEN 0 ELSE 1),
        acted |-> tally.acted + (IF Acted(W, self, ctx) THEN 1 ELSE 0)]

\* instance.apply(context)
Apply ==
  /\ IsLoaded
  /\ \E self \in DOMAIN heap, ctx \in Contexts :
       \E rnd \in RandomDraws(heap[self].cls) :
         LET W == Modifier_apply(Work(ctx), self, ctx, rnd)
         IN /\ Len(W.heap) <= scen.objs
            /\ \A a \in Actors : W.actors[a].hp <= scen.hp_cap
            /\ heap' = W.heap
            /\ actors' = W.actors
            /\ origin' = (IF W.spawned = 0 THEN origin
                          ELSE Append(origin, Made("spawn", 0, self)))
            /\ call' = [Call("apply", W.exc, W.spawned) EXCEPT
                          !.self = self, !.ctx = <<ctx>>, !.rnd = <<rnd>>,
                          !.before = heap[self].duration,
                          !.ran = W.ran, !.entry = W.entry,
                          !.kind = W.kind, !.int = W.int,
                          !.dmg = IF W.kind = "damage" THEN <<W.dmg>> ELSE <<>>,
                          !.logged = W.logged, !.dmgObj = W.dmgObj]
            /\ Watched(self) => tally.seen + tally.idle < MaxApplies
            /\ tally' = Tallied(W, self, ctx)
  /\ UNCHANGED <<restvars, regvars, scen>>

\* the orchestrator lands a hit of n on the Player between two effects
Hit ==
  /\ IsLoaded
  /\ \E n \in scen.hits :
       /\ actors["a1"].hp > 0
       /\ actors' = [actors EXCEPT !["a1"] = CombatActor_modify_hp(@, 0 - n, FALSE)]
  /\ call' = Call("hit", "", 0)
  /\ UNCHANGED <<restvars, regvars, heap, origin, scen, tally>>

\* cls(strength): the next effect of the scenario's equipment is made
Equip ==
  /\ IsLoaded
  /\ Len(heap) < Len(scen.equip)
  /\ \A o \in DOMAIN origin : origin[o].by = "init"
  /\ LET e == scen.equip[Len(heap) + 1]
     IN Returned("init",
                 [heap |-> Append(heap, Modifier_init(e.cls, e.strength, -1)),
                  obj |-> Len(heap) + 1, exc |-> ""], 0)
  /\ UNCHANGED <<restvars, regvars, actors, scen, tally>>

\* the sort key of instance i of heap h: OP_ORDERING, then the place in the registry
OrderKey(h, i) ==
  <<ClassAttr(classes, h[i].cls, "OP_ORDERING")[1], ClassAttr(classes, h[i].cls, "ID")[1], i>>

KeyBefore(a, b) ==
  \/ a[1] < b[1]
  \/ a[1] = b[1] /\ a[2] < b[2]
  \/ a[1] = b[1] /\ a[2] = b[2] /\ a[3] < b[3]

\* the instances of set S of heap h, sorted by their keys
RECURSIVE SortedByKey(_, _)
SortedByKey(h, S) ==
  IF S = {} THEN <<>>
  ELSE LET m == CHOOSE i \in S :
                  \A j \in S \ {i} : KeyBefore(OrderKey(h, i), OrderKey(h, j))
       IN <<m>> \o SortedByKey(h, S \ {m})

\* the instances of heap h eligible in a phase, in the order they are applied
DispatchOrder(h, phase) ==
  SortedByKey(h, {i \in DOMAIN h : ClassAttr(classes, h[i].cls, "TYPE") = <<phase>>})

\* the instances of order whose class is in C, in the same order
RECURSIVE OfClasses(_, _, _)
OfClasses(order, h, C) ==
  IF order = <<>> THEN <<>>
  ELSE (IF h[Head(order)].cls \in C THEN <<Head(order)>> ELSE <<>>)
       \o OfClasses(Tail(order), h, C)

\* one effect is applied to the in-flight attack, which W.dmgObj holds: a
\* returned damage value is folded back into it
PhaseStep(W, self, ctx, rnd) ==
  IF W.exc # "" THEN W
  ELSE LET W1 == Modifier_apply([W EXCEPT !.kind = "none"], self,
                                [ctx EXCEPT !.damage = W.dmgObj], rnd)
       IN IF W1.exc = "" /\ W1.kind = "damage"
          THEN [W1 EXCEPT !.dmgObj = <<W1.dmg>>] ELSE W1

\* the effects of order are applied in turn, from each work state of S
RECURSIVE RunPhase(_, _, _, _)
RunPhase(S, order, ctx, rnd) ==
  IF order = <<>> THEN S
  ELSE RunPhase({PhaseStep(W, Head(order), ctx, rnd) : W \in S}, Tail(order), ctx, rnd)

\* the draws taken during one phase
PhaseDraws == {[NoDraw EXCEPT !.key = k, !.roll = r] : k \in {"slash", "fire"}, r \in {1, 10}}

\* the sub-effects made during a phase, each with the instance that spawned it
SpawnOrigins(order) ==
  LET parents == OfClasses(order, heap, {"PoisonTipped"})
  IN [k \in 1 .. Len(parents) |-> Made("spawn", 0, parents[k])]

\* the orchestrator runs one phase of actor a1's attack on a2
ApplyPhase ==
  /\ IsLoaded
  /\ heap # <<>>
  /\ \A o \in DOMAIN origin : origin[o].by = "init"
  /\ \E d \in DamageInputs, rnd \in PhaseDraws :
       LET ctx == Context("a1", "a2", <<d>>, TRUE)
           order == DispatchOrder(heap, scen.phase)
       IN \E W \in RunPhase({Work(ctx)}, order, ctx, rnd) :
          /\ heap' = W.heap
          /\ actors' = W.actors
          /\ origin' = (IF Len(W.heap) = Len(heap) THEN origin
                        ELSE origin \o SpawnOrigins(order))
          /\ call' = [Call("phase", W.exc, 0) EXCEPT
                        !.ctx = <<ctx>>, !.rnd = <<rnd>>, !.kind = "damage",
                        !.dmg = W.dmgObj, !.logged = W.logged, !.dmgObj = W.dmgObj]
  /\ UNCHANGED <<restvars, regvars, scen, tally>>

(***************************** classes.py **********************************)
\* Quest.get_rewards(player): the conditional expression takes the whole sum as
\* its first operand; guild.level of None raises AttributeError
Quest_get_rewards(zone_level, number, p) ==
  IF p.guild = <<>>
  THEN [exc |-> "AttributeError", pair |-> <<>>]
  ELSE LET multiplier == IF p.guild[1].level # 0
                         THEN zone_level + number + p.guild[1].level
                         ELSE 0
       IN [exc |-> "", pair |-> <<100 * multiplier, 180 * multiplier>>]

\* quest.get_rewards(player) for a quest of some zone
GetRewards ==
  \E zone_level \in 1 .. MaxZoneLevel, number \in 0 .. MaxQuestNumber :
    LET r == Quest_get_rewards(zone_level, number, player)
    IN /\ call' = [Call("get_rewards", r.exc, 0) EXCEPT
                     !.args = <<zone_level, number>>, !.pair = r.pair]
       /\ UNCHANGED <<regvars, heap, origin, actors, tally, restvars, scen>>

\* Player.get_required_xp
Player_get_required_xp(p) == 100 * p.level + (5 * p.level * p.level)

\* the loop test of Player.level_up
MutLevelUpStrictTest(p, req_xp) == p.xp > req_xp

LevelUpTest(p, req_xp) == p.xp >= req_xp

\* one pass through the body of the loop of Player.level_up, up to the new req_xp
LevelUpBody(p, req_xp) == [p EXCEPT !.level = @ + 1, !.xp = @ - req_xp]

\* player.add_xp(amount) up to its return or to the entry of level_up, whose
\* frame (req_xp) the call then holds
AddXp ==
  /\ call.op = ""
  /\ \E amount \in 0 .. MaxXpGain :
       LET p == [player EXCEPT !.xp = @ + amount]
           c == [Call("add_xp", "", 0) EXCEPT !.args = <<amount>>, !.old = <<player>>]
       IN /\ player' = p
          /\ call' = IF p.xp >= Player_get_required_xp(p)
                     THEN [c EXCEPT !.pc = "level_up",
                                    !.req_xp = Player_get_required_xp(p)]
                     ELSE [c EXCEPT !.truth = FALSE]
  /\ UNCHANGED <<regvars, heap, origin, actors, tally, _NEXT_FLAG, FLAG, scen>>

\* the loop of Player.level_up: one more pass, or the return to add_xp, which
\* returns True
LevelUp ==
  /\ call.pc = "level_up"
  /\ IF LevelUpTest(player, call.req_xp)
     THEN LET p == LevelUpBody(player, call.req_xp)
          IN /\ player' = p
             /\ call' = [call EXCEPT !.req_xp = Player_get_required_xp(p)]
     ELSE /\ player' = player
          /\ call' = [call EXCEPT !.pc = "", !.truth = TRUE]
  /\ UNCHANGED <<regvars, heap, origin, actors, tally, _NEXT_FLAG, FLAG, scen>>

Player_get_gear_upgrade_required_money(p) ==
  100 * p.gear_level + (p.gear_level * p.gear_level)

Player_get_home_upgrade_required_money(p) ==
  1000 * p.home_level + (4 * p.home_level * p.home_level)

Player_can_upgrade_gear(p) == p.money >= Player_get_gear_upgrade_required_money(p)

Player_can_upgrade_home(p) == p.money >= Player_get_home_upgrade_required_money(p)

\* Player.upgrade_gear: the level is raised, then the money is taken
Player_upgrade_gear(p) ==
  LET q == [p EXCEPT !.gear_level = @ + 1]
  IN [q EXCEPT !.money = @ - Player_get_gear_upgrade_required_money(q)]

\* Player.upgrade_home: the level is raised, then the money is taken
Player_upgrade_home(p) ==
  LET q == [p EXCEPT !.home_level = @ + 1]
  IN [q EXCEPT !.money = @ - Player_get_home_upgrade_required_money(q)]

Guild_get_upgrade_required_money(g) == 10000 * g.level + (5 * g.level * g.level)

Guild_can_upgrade(g) ==
  (g.level < MAX_LEVEL) /\ (g.founder.money >= Guild_get_upgrade_required_money(g))

\* Guild.upgrade: the founder's money is taken, then the level is raised
Guild_upgrade(g) ==
  LET h == [g EXCEPT !.founder.money = @ - Guild_get_upgrade_required_money(g)]
  IN [h EXCEPT !.level = @ + 1]

\* if player.can_upgrade_gear(): player.upgrade_gear()
UpgradeGear ==
  /\ player.gear_level <= MaxGearLevel
  /\ Player_can_upgrade_gear(player)
  /\ player' = Player_upgrade_gear(player)
  /\ call' = [Call("upgrade_gear", "", 0) EXCEPT !.old = <<player>>]
  /\ UNCHANGED <<regvars, heap, origin, actors, tally, _NEXT_FLAG, FLAG, scen>>

\* if player.can_upgrade_home(): player.upgrade_home()
UpgradeHome ==
  /\ player.home_level <= MaxHomeLevel
  /\ Player_can_upgrade_home(player)
  /\ player' = Player_upgrade_home(player)
  /\ call' = [Call("upgrade_home", "", 0) EXCEPT !.old = <<player>>]
  /\ UNCHANGED <<regvars, heap, origin, actors, tally, _NEXT_FLAG, FLAG, scen>>

\* if guild.can_upgrade(): guild.upgrade(), for the guild of the player
UpgradeGuild ==
  /\ player.guild # <<>>
  /\ Guild_can_upgrade(player.guild[1])
  /\ player' = [player EXCEPT !.guild = <<Guild_upgrade(player.guild[1])>>]
  /\ call' = [Call("upgrade", "", 0) EXCEPT !.old = <<player>>]
  /\ UNCHANGED <<regvars, heap, origin, actors, tally, _NEXT_FLAG, FLAG, scen>>

(****************************** flags.py ***********************************)
\* numpy.uint32: a value is held as the set of the positions of its 1 bits
UINT32_BITS == 32

uint32(n) == {b \in 0 .. UINT32_BITS - 2 : (n \div Pow2(b)) % 2 = 1}

\* np.left_shift on uint32: the bits shifted past the width are lost
left_shift(x, k) == {b + k : b \in x} \cap (0 .. UINT32_BITS - 1)

bitwise_or(x, y) == x \cup y

bitwise_xor(x, y) == (x \ y) \cup (y \ x)

bitwise_and(x, y) == x \cap y

\* the class statements of flags.py, in order
FlagDefs ==
  <<"HexedFlag", "CursedFlag", "AlloyGlitchFlag1", "AlloyGlitchFlag2",
    "AlloyGlitchFlag3", "LuckFlag1", "LuckFlag2", "StrengthBuff", "OccultBuff",
    "FireBuff", "IceBuff", "AcidBuff", "ElectricBuff">>

Flag_set(cls, target) == bitwise_or(FLAG[cls], target)

Flag_unset(cls, target) == bitwise_xor(FLAG[cls], target)

Flag_is_set(cls, target) == bitwise_and(FLAG[cls], target) = FLAG[cls]

\* the containers handed to a flag: any of the low bits, with or without the bit
\* of the last flag, the first bit no flag has and the highest bit
Containers ==
  {lo \cup hi : lo \in SUBSET (0 .. MaxBit),
                hi \in SUBSET {Len(FlagDefs) - 1, Len(FlagDefs), UINT32_BITS - 1}}

\* the next class statement of flags.py runs: Flag.__init_subclass__
DefineFlag ==
  /\ Cardinality(DOMAIN FLAG) < Len(FlagDefs)
  /\ LET cls == FlagDefs[Cardinality(DOMAIN FLAG) + 1]
     IN /\ FLAG' = FLAG @@ (cls :> _NEXT_FLAG)
        /\ _NEXT_FLAG' = left_shift(_NEXT_FLAG, 1)
        /\ call' = [Call("class", "", 0) EXCEPT !.args = <<cls>>]
  /\ UNCHANGED <<regvars, heap, origin, actors, tally, player, scen>>

\* cls.set(target)
FlagSet ==
  \E cls \in DOMAIN FLAG :
    /\ call' = [Call("set", "", 0) EXCEPT !.args = <<cls, scen.target>>,
                                         !.bits = Flag_set(cls, scen.target)]
    /\ UNCHANGED <<regvars, heap, origin, actors, tally, restvars, scen>>

\* cls.unset(target)
FlagUnset ==
  \E cls \in DOMAIN FLAG :
    /\ call' = [Call("unset", "", 0) EXCEPT !.args = <<cls, scen.target>>,
                                           !.bits = Flag_unset(cls, scen.target)]
    /\ UNCHANGED <<regvars, heap, origin, actors, tally, restvars, scen>>

\* cls.is_set(target)
FlagIsSet ==
  \E cls \in DOMAIN FLAG :
    /\ call' = [Call("is_set", "", 0) EXCEPT !.args = <<cls, scen.target>>,
                                            !.truth = Flag_is_set(cls, scen.target)]
    /\ UNCHANGED <<regvars, heap, origin, actors, tally, restvars, scen>>

(************************** specifications *********************************)
\* the import of modifiers.py, then lookups
InitReg ==
  /\ scen \in LookupScens
  /\ _LIST = EmptyRegistry.LIST
  /\ _RARITY_INDEX = EmptyRegistry.RARITY_INDEX
  /\ _NAME_LUT = EmptyRegistry.NAME_LUT
  /\ classes = EmptyRegistry.classes
  /\ defined = 0
  /\ heap = <<>>
  /\ origin = <<>>
  /\ actors = InitActors
  /\ call = NoCall
  /\ tally = NoTally
  /\ player = scen.player
  /\ _NEXT_FLAG = uint32(1)
  /\ FLAG = <<>>

NextReg == DefineNext \/ GetModifier \/ GetModifierFromName

SpecReg == InitReg /\ [][NextReg]_vars

\* modifiers.py is imported; the scenario is drawn first
InitLoaded ==
  /\ _LIST = Loaded.LIST
  /\ _RARITY_INDEX = Loaded.RARITY_INDEX
  /\ _NAME_LUT = Loaded.NAME_LUT
  /\ classes = Loaded.classes
  /\ defined = Len(ClassDefs)
  /\ heap = <<>>
  /\ origin = <<>>
  /\ actors = [a \in Actors |->
                 [InitActors[a] EXCEPT
                    !.hp = scen.max_hp, !.max_hp = scen.max_hp,
                    !.secondary = IF a = "a1" THEN scen.secondary ELSE @,
                    !.artifacts = IF a = "a1" THEN scen.artifacts ELSE @]]
  /\ call = NoCall
  /\ tally = NoTally
  /\ player = scen.player
  /\ _NEXT_FLAG = uint32(1)
  /\ FLAG = <<>>

\* generation
InitGen == scen \in GenScens /\ InitLoaded

NextGen == Generate

SpecGen == InitGen /\ [][NextGen]_vars

\* equality
InitEq == scen \in EqScens /\ InitLoaded

NextEq == Construct \/ ConstructOther \/ Compare

SpecEq == InitEq /\ [][NextEq]_vars

\* combat: an instance of one variant is made, applied in turn with the
\* instances it spawns, and the actors are hit in between
Spawners == {"PoisonTipped", "EldritchShield", "UnyieldingWill"}

\* where the strength becomes a sub-effect's duration it stays small
Strengths(c) == IF c \in Spawners THEN {1, 2} ELSE {1, 50}

Durations == -1 .. MaxDuration

Gear(c) == IF c \in {"Bashing", "Akimbo"} THEN {"none", "shield", "weapon"} ELSE {"none"}

Artifacts(c) == IF c = "EldritchSynergy" THEN {0, 2} ELSE {0}

CombatScens ==
  UNION {{[NoScen EXCEPT !.cls = c, !.strength = s, !.duration = d,
                         !.secondary = g, !.artifacts = n] :
             s \in Strengths(c), d \in Durations, g \in Gear(c), n \in Artifacts(c)} :
         c \in Variants}

Init == scen \in CombatScens /\ InitLoaded

Next == Construct \/ Apply \/ Hit

Spec == Init /\ [][Next]_vars

\* absorption: one absorbing variant at each strength of its range, applied once
\* to a damage value that holds d of its category and 3 of every other
AbsorbClasses == {c \in Variants : Loaded.classes[c].base = "_GenericDamageAbsorb"}

AbsorbScens ==
  UNION {{[NoScen EXCEPT !.cls = c, !.strength = s, !.duration = 1,
                         !.damage = <<[t \in DamageTypes |->
                                        IF t = Loaded.classes[c].attrs.DAMAGE_TYPE
                                        THEN d ELSE 3]>>,
                         !.hp_cap = MaxHP + d] :
             s \in 1 .. ClassAttr(Loaded.classes, c, "MAX_STRENGTH")[1],
             d \in {0, 1, 10, 50, 100}} :
         c \in AbsorbClasses}

InitAbsorb == scen \in AbsorbScens /\ InitLoaded

NextAbsorb == Construct \/ Apply

SpecAbsorb == InitAbsorb /\ [][NextAbsorb]_vars

\* revives: a free-revive sub-effect as its spawner makes it (Idiot God Blessing:
\* the spawner's strength, Unyielding Will: strength 1), with 1 or more charges;
\* the actors have the bound's max HP or 100, and a hit is lethal
ReviveClasses == {"IdiotGodBlessing.FreeRevive", "UnyieldingWill.FreeRevive"}

ReviveStrengths(c) ==
  IF c = "IdiotGodBlessing.FreeRevive"
  THEN ClassAttr(Loaded.classes, "IdiotGodBlessing", "MIN_STRENGTH")[1]
         .. ClassAttr(Loaded.classes, "IdiotGodBlessing", "MAX_STRENGTH")[1]
  ELSE {1}

ReviveScens ==
  UNION {{[NoScen EXCEPT !.cls = c, !.strength = s, !.duration = d,
                         !.max_hp = m, !.hp_cap = m, !.hits = {m}] :
             s \in ReviveStrengths(c), d \in 1 .. MaxDuration, m \in {MaxHP, 100}} :
         c \in ReviveClasses}

InitRevive == scen \in ReviveScens /\ InitLoaded

NextRevive == Construct \/ Apply \/ Hit

SpecRevive == InitRevive /\ [][NextRevive]_vars

\* one more variant is defined once the catalog is loaded: its name is new or
\* that of a registered variant, its scaling is 2 or 0 (kept in tenths)
ExtraDefs ==
  {[cls |-> "Extra", base |-> "Modifier", kw |-> [rarity |-> r],
    body |-> [TYPE |-> PRE_ATTACK, NAME |-> n, SCALING |-> sc]] :
      r \in {COMMON, UNCOMMON, RARE, LEGENDARY},
      n \in DOMAIN Loaded.NAME_LUT \cup {"Extra Effect"},
      sc \in {0, 20}}

ExtraScens ==
  {[NoScen EXCEPT !.extra = <<d>>, !.byName = TRUE, !.name = d.body.NAME] : d \in ExtraDefs}

InitExtra == scen \in ExtraScens /\ InitLoaded

NextExtra == DefineExtra \/ GetModifierFromName

SpecExtra == InitExtra /\ [][NextExtra]_vars

\* dispatch: three variants of one phase are equipped, not in the order of their
\* registration, and the phase is run with what is equipped
PhaseVariants(phase) ==
  {c \in Variants : ClassAttr(Loaded.classes, c, "TYPE") = <<phase>>}

EquipStrength(c) == IF c = "PoisonTipped" THEN 1 ELSE 50

ClassId(c) == ClassAttr(Loaded.classes, c, "ID")[1]

EquipTriples(ph) ==
  {t \in PhaseVariants(ph) \X PhaseVariants(ph) \X PhaseVariants(ph) :
     ClassId(t[1]) < ClassId(t[2]) /\ ClassId(t[2]) < ClassId(t[3])}

DispatchScens ==
  UNION {{[NoScen EXCEPT !.phase = ph,
                         !.equip = <<[cls |-> t[3], strength |-> EquipStrength(t[3])],
                                     [cls |-> t[1], strength |-> EquipStrength(t[1])],
                                     [cls |-> t[2], strength |-> EquipStrength(t[2])]>>] :
             t \in EquipTriples(ph)} :
         ph \in {PRE_ATTACK, PRE_DEFEND}}

InitDispatch == scen \in DispatchScens /\ InitLoaded

NextDispatch == Equip \/ ApplyPhase

SpecDispatch == InitDispatch /\ [][NextDispatch]_vars

\* contexts that lack a key: an instance of a registered variant is applied with
\* contexts built without one key, or with every key
MissingScens ==
  UNION {{[NoScen EXCEPT !.cls = c, !.strength = s, !.absent = K] :
             s \in Strengths(c), K \in {{}} \cup {{k} : k \in ContextKeys}} :
         c \in Range(Loaded.LIST)}

InitMissing == scen \in MissingScens /\ InitLoaded

NextMissing == Construct \/ Apply

SpecMissing == InitMissing /\ [][NextMissing]_vars

\* spawners: an instance of a spawner, permanent as the lookups make it, is
\* applied more than once, and so is what it spawned
SpawnerClasses ==
  {"PoisonTipped", "EldritchShield", "UnyieldingWill", "IdiotGodBlessing", "AdditionalHelper"}

SpawnScens ==
  {[NoScen EXCEPT !.cls = c, !.objs = MaxObjs + 1] : c \in SpawnerClasses}

InitSpawn == scen \in SpawnScens /\ InitLoaded

NextSpawn == Construct \/ Apply

SpecSpawn == InitSpawn /\ [][NextSpawn]_vars

\* one Eldritch Shield: the spawner is applied once, then what it spawned
\* receives hits of 0, 1 and 80 points in any order
OnePoint == [Damage_get_empty EXCEPT !["slash"] = 1]

ShieldScens ==
  {[NoScen EXCEPT !.cls = "EldritchShield", !.strength = s,
                  !.watch = "EldritchShield.TankHits", !.damage = <<OnePoint>>] :
      s \in 1 .. MaxDuration}

InitShield == scen \in ShieldScens /\ InitLoaded

NextShield == Construct \/ Apply

SpecShield == InitShield /\ [][NextShield]_vars

\* one Unyielding Will: the spawner is applied, then what it spawned, and the
\* Player is hit to 0 HP in between
WillScens ==
  {[NoScen EXCEPT !.cls = "UnyieldingWill", !.strength = s,
                  !.watch = "UnyieldingWill.FreeRevive",
                  !.max_hp = m, !.hits = {m}, !.hp_cap = m] :
      s \in 1 .. MaxDuration, m \in {MaxHP, 100}}

InitWill == scen \in WillScens /\ InitLoaded

NextWill == Construct \/ Apply \/ Hit

SpecWill == InitWill /\ [][NextWill]_vars

\* one Poison Tipped: the spawner is applied, then the poison it spawned ticks
\* at turn starts on actors of 100 HP
PoisonScens ==
  {[NoScen EXCEPT !.cls = "PoisonTipped", !.strength = s,
                  !.watch = "PoisonTipped.PoisonProc",
                  !.max_hp = 100, !.hp_cap = 100] :
      s \in 1 .. MaxDuration}

InitPoison == scen \in PoisonScens /\ InitLoaded

NextPoison == Construct \/ Apply

SpecPoison == InitPoison /\ [][NextPoison]_vars

\* one Shade Helper: the spawner is applied, then the helper it spawned at turn
\* starts, with outcomes at both ends of the roll and around the threshold
HelperRolls == 1 .. 100

HelperScens ==
  {[NoScen EXCEPT !.cls = "AdditionalHelper", !.strength = s] : s \in 1 .. MaxHP}

InitHelper == scen \in HelperScens /\ InitLoaded

NextHelper == Construct \/ Apply

SpecHelper == InitHelper /\ [][NextHelper]_vars

\* lookups of one registered variant, by id and by name, and the instances applied
FreshScens ==
  UNION {{[NoScen EXCEPT !.byId = TRUE, !.byName = TRUE, !.strength = s,
                         !.id = Loaded.classes[c].attrs.ID,
                         !.name = Loaded.classes[c].attrs.NAME] :
             s \in Strengths(c)} :
         c \in Range(Loaded.LIST)}

\* quest rewards for a player without a guild or in a guild of any level
QuestScens ==
  {[NoScen EXCEPT !.player = [NoPlayer EXCEPT !.guild = g]] :
     g \in {<<>>} \cup {<<Guild(l, 0)>> : l \in 0 .. MAX_LEVEL}}

InitQuest == scen \in QuestScens /\ InitLoaded

NextQuest == GetRewards

SpecQuest == InitQuest /\ [][NextQuest]_vars

\* one add_xp on a player of some level and xp
XpScens ==
  {[NoScen EXCEPT !.player = [NoPlayer EXCEPT !.level = l, !.xp = x]] :
     l \in 0 .. MaxPlayerLevel, x \in 0 .. MaxXp}

InitXp == scen \in XpScens /\ InitLoaded

NextXp == AddXp \/ LevelUp

SpecXp == InitXp /\ [][NextXp]_vars

\* the interpreter goes on with a loop it is in
SpecXpFair == SpecXp /\ WF_vars(LevelUp)

\* upgrades of the gear and the home of a player of some money, and of a guild
\* whose founder has about the price of one upgrade or of two
UpgradeScens ==
  {[NoScen EXCEPT !.player = [NoPlayer EXCEPT !.gear_level = g, !.home_level = h,
                                                !.money = m]] :
     g \in 0 .. MaxGearLevel, h \in 0 .. MaxHomeLevel, m \in 0 .. MaxMoney}
  \cup
  UNION {LET one == Guild_get_upgrade_required_money(Guild(l, 0))
             two == one + Guild_get_upgrade_required_money(Guild(l + 1, 0))
         IN {[NoScen EXCEPT !.player = [NoPlayer EXCEPT !.guild = <<Guild(l, m)>>]] :
               m \in (one - MoneyMargin .. one + MoneyMargin)
                       \cup (two - MoneyMargin .. two + MoneyMargin)} :
         l \in 1 .. MAX_LEVEL}

InitUpgrade == scen \in UpgradeScens /\ InitLoaded

NextUpgrade == UpgradeGear \/ UpgradeHome \/ UpgradeGuild

SpecUpgrade == InitUpgrade /\ [][NextUpgrade]_vars

\* the import of flags.py, and calls on the flags defined so far with one container
FlagScens == {[NoScen EXCEPT !.target = t] : t \in Containers}

InitFlags == scen \in FlagScens /\ InitLoaded

NextFlags == DefineFlag \/ FlagSet \/ FlagUnset \/ FlagIsSet

SpecFlags == InitFlags /\ [][NextFlags]_vars

InitFresh == scen \in FreshScens /\ InitLoaded

NextFresh == GetModifier \/ GetModifierFromName \/ Apply

SpecFresh == InitFresh /\ [][NextFresh]_vars

(***************************************************************************)
(*                              the claims                                 *)
(***************************************************************************)
SubEffects == {"PoisonTipped.PoisonProc", "EldritchShield.TankHits",
               "UnyieldingWill.FreeRevive", "IdiotGodBlessing.FreeRevive",
               "AdditionalHelper.Helper"}

Registered == Range(_LIST)

Max(a, b) == IF a >= b THEN a ELSE b

\* number of places of sequence q that hold x
Count(q, x) == Cardinality({i \in DOMAIN q : q[i] = x})

\* the strength the scaling law of the data model gives class cls at a level
LawStrength(cls, level) ==
  LET mn == ClassAttr(classes, cls, "MIN_STRENGTH")[1]
      mx == ClassAttr(classes, cls, "MAX_STRENGTH")[1]
      sc == ClassAttr(classes, cls, "SCALING")[1]
      raw == Max(mn, mn + ((10 * level) \div sc))
  IN IF mx # 0 /\ raw > mx THEN mx ELSE raw

\* C4: generate(level) of a registered variant returns an instance whose strength is
\* max(MIN_STRENGTH, MIN_STRENGTH + floor(level / SCALING)), replaced by MAX_STRENGTH
\* when that is not 0 and is exceeded; with MIN_STRENGTH 1, SCALING 2 and
\* MAX_STRENGTH 50, level 100 gives 50 and level 10 gives 6.
C4_GenerateStrength ==
  (call.op = "generate" /\ scen.cls \in Registered) =>
     /\ call.exc = ""
     /\ call.obj \in DOMAIN heap
     /\ heap[call.obj].cls = scen.cls
     /\ heap[call.obj].strength = LawStrength(scen.cls, call.level)
     /\ LET mn == ClassAttr(classes, scen.cls, "MIN_STRENGTH")[1]
            mx == ClassAttr(classes, scen.cls, "MAX_STRENGTH")[1]
            sc == ClassAttr(classes, scen.cls, "SCALING")[1]
        IN (mn = 1 /\ sc = 20 /\ mx = 50) =>
             /\ call.level = 100 => heap[call.obj].strength = 50
             /\ call.level = 10 => heap[call.obj].strength = 6

\* C4 witness: Blessed (MIN_STRENGTH 1, SCALING 2, MAX_STRENGTH 50) generated at
\* level 100 came out with the capped strength 50.
C4_Witness ==
  /\ call.op = "generate" /\ call.exc = "" /\ call.level = 100
  /\ scen.cls = "Blessed"
  /\ heap[call.obj].strength = 50

\* the instances generate made in this run
Generated == {o \in DOMAIN heap : origin[o].by = "generate"}

\* C5: the strength generate gives a registered variant never goes down as the level
\* goes up; with a MAX_STRENGTH other than 0 it never exceeds it, and once a level
\* gives MAX_STRENGTH every higher level gives it too.
C5_GenerateMonotone ==
  scen.cls \in Registered =>
    \A o1 \in Generated, o2 \in Generated :
       LET mx == ClassAttr(classes, scen.cls, "MAX_STRENGTH")[1]
       IN /\ mx # 0 => heap[o1].strength <= mx
          /\ origin[o1].level <= origin[o2].level =>
               /\ heap[o1].strength <= heap[o2].strength
               /\ (mx # 0 /\ heap[o1].strength = mx) => heap[o2].strength = mx

\* C5 witness: a capped variant generated at two levels, the lower one below the cap
\* and the higher one at it.
C5_Witness ==
  /\ scen.cls \in Registered
  /\ \E o1 \in Generated, o2 \in Generated :
       /\ origin[o1].level < origin[o2].level
       /\ heap[o1].strength < heap[o2].strength
       /\ heap[o2].strength = ClassAttr(classes, scen.cls, "MAX_STRENGTH")[1]

C7_IdsAndNames ==
  IsLoaded =>
    /\ \A i \in DOMAIN _LIST : ClassAttr(classes, _LIST[i], "ID") = <<i - 1>>
    /\ \A i \in DOMAIN _LIST, j \in DOMAIN _LIST :
         i # j => /\ _LIST[i] # _LIST[j]
                  /\ ClassAttr(classes, _LIST[i], "ID") # ClassAttr(classes, _LIST[j], "ID")
                  /\ ClassAttr(classes, _LIST[i], "NAME") # ClassAttr(classes, _LIST[j], "NAME")
    /\ Cardinality(DOMAIN _NAME_LUT) = Len(_LIST)
    /\ \A i \in DOMAIN _LIST :
         DictGetItem(_NAME_LUT, ClassAttr(classes, _LIST[i], "NAME")[1]) = <<_LIST[i]>>

\* C7 witness: the import is over, the catalog holds its 60 variants and the last one
\* registered, Shade Helper, has id 59.
C7_Witness ==
  /\ IsLoaded
  /\ Len(_LIST) = 60
  /\ ClassAttr(classes, "AdditionalHelper", "ID") = <<59>>
  /\ "Shade Helper" \in DOMAIN _NAME_LUT

\* C8: the four rarity lists partition the catalog: every registered variant is in the
\* list of its RARITY, once, and in no other, each list in registration order; the
\* nested sub-effect classes and the template classes are in no list and not in the
\* catalog.
C8_RarityPartition ==
  /\ DOMAIN _RARITY_INDEX = {COMMON, UNCOMMON, RARE, LEGENDARY}
  /\ \A c \in Registered, r \in DOMAIN _RARITY_INDEX :
       Count(_RARITY_INDEX[r], c) =
         (IF ClassAttr(classes, c, "RARITY") = <<r>> THEN 1 ELSE 0)
  /\ \A c \in Registered : ClassAttr(classes, c, "RARITY") # <<>>
  /\ \A r \in DOMAIN _RARITY_INDEX :
       _RARITY_INDEX[r] =
         SelectSeq(_LIST, LAMBDA c : ClassAttr(classes, c, "RARITY") = <<r>>)
  /\ \A c \in SubEffects \cup Templates :
       /\ c \notin Registered
       /\ \A r \in DOMAIN _RARITY_INDEX : Count(_RARITY_INDEX[r], c) = 0

\* C8 witness: the import is over, the nested and template classes exist, and each of
\* the four lists holds variants.
C8_Witness ==
  /\ IsLoaded
  /\ SubEffects \cup Templates \subseteq DOMAIN classes
  /\ \A r \in DOMAIN _RARITY_INDEX : Len(_RARITY_INDEX[r]) > 0
  /\ Len(_RARITY_INDEX[COMMON]) + Len(_RARITY_INDEX[UNCOMMON])
       + Len(_RARITY_INDEX[RARE]) + Len(_RARITY_INDEX[LEGENDARY]) = Len(_LIST)

\* the ids registration gave out
RegisteredIds == {ClassAttr(classes, c, "ID")[1] : c \in Registered}

\* C9: get_modifier fails with a lookup error for every id that is not the id of a
\* registered variant, get_modifier_from_name for every name that is not a registered
\* display name; neither returns an instance for an unknown key.
C9_UnknownKeyFails ==
  /\ (call.op = "get_modifier" /\ scen.id \notin RegisteredIds) =>
        call.exc = "IndexError" /\ call.obj = 0
  /\ (call.op = "get_modifier_from_name" /\ scen.name \notin DOMAIN _NAME_LUT) =>
        call.exc = "KeyError" /\ call.obj = 0

\* C1: an apply on an instance whose duration is d > 0 runs the behaviour in
\* that call, and the behaviour finds the duration already at d - 1; this
\* holds for d = 1 too, where the behaviour runs with the duration at 0.
C1_PositiveDurationRuns ==
  (call.op = "apply" /\ call.before > 0) =>
     (call.ran /\ call.entry = call.before - 1)

\* an apply took an instance from 1 to 0 and its behaviour ran
C1_Witness ==
  /\ call.op = "apply"
  /\ call.before = 1
  /\ call.ran
  /\ call.entry = 0
  /\ heap[call.self].duration = 0

\* C2: an apply on an instance whose duration is 0 runs no behaviour and
\* returns None without raising; the heap (every instance's duration, no
\* instance spawned), the actors (HP and timed-modifier lists), the caller's
\* damage object and the log are as before; and an instance whose duration
\* is 0 keeps it at 0 whatever is applied afterwards.
C2_ExpiredIsInert ==
  [][/\ (call'.op = "apply" /\ call'.before = 0) =>
          /\ ~call'.ran
          /\ call'.kind = "none"
          /\ call'.exc = ""
          /\ call'.obj = 0
          /\ call'.logged = <<>>
          /\ call'.dmgObj = call'.ctx[1].damage
          /\ heap' = heap
          /\ actors' = actors
     /\ \A o \in DOMAIN heap : heap[o].duration = 0 => heap'[o].duration = 0]_vars

\* an instance made with a positive duration has counted down to 0 and was applied again
C2_Witness ==
  /\ call.op = "apply"
  /\ call.before = 0
  /\ origin[call.self].by = "init"
  /\ scen.duration > 0
  /\ heap[call.self].duration = 0

\* C3: an instance whose duration is -1 keeps it at -1 through every apply,
\* whatever its variant (registered or sub-effect) and whatever the context.
C3_PermanentStaysPermanent ==
  [][\A o \in DOMAIN heap : heap[o].duration = -1 => heap'[o].duration = -1]_vars

\* C10: a lookup of a registered variant by its id or by its name raises
\* nothing and returns an instance that was not there before, of the variant
\* with that id and name, with the strength asked for and duration -1; the
\* instances made earlier stay as they were, and an apply changes no
\* instance other than the one applied (and may add the one it spawns).
C10_LookupsAreFresh ==
  [][/\ (call'.op \in {"get_modifier", "get_modifier_from_name"}) =>
          /\ call'.exc = ""
          /\ call'.obj = Len(heap) + 1
          /\ Len(heap') = Len(heap) + 1
          /\ \A o \in DOMAIN heap : heap'[o] = heap[o]
          /\ ClassAttr(classes, heap'[call'.obj].cls, "ID") = <<scen.id>>
          /\ ClassAttr(classes, heap'[call'.obj].cls, "NAME") = <<scen.name>>
          /\ heap'[call'.obj].strength = scen.strength
          /\ heap'[call'.obj].duration = -1
     /\ (call'.op = "apply") =>
          \A o \in DOMAIN heap : o # call'.self => heap'[o] = heap[o]]_vars

\* a variant looked up by id and by name: two instances, equal in class and
\* strength, and one of them has been applied
C10_Witness ==
  /\ Len(heap) = 2
  /\ origin[1].by = "get_modifier"
  /\ origin[2].by = "get_modifier_from_name"
  /\ heap[1].cls = heap[2].cls
  /\ heap[1].strength = heap[2].strength
  /\ call.op = "apply"
  /\ call.ran

\* C11: the class statement of a variant whose name is that of a registered
\* variant, or whose scaling is 0, raises, and the catalog list, the name
\* index and the rarity buckets are as the import left them.
C11_MalformedRejected ==
  (/\ call.op = "class"
   /\ scen.extra # <<>>
   /\ \/ scen.extra[1].body.NAME \in DOMAIN Loaded.NAME_LUT
      \/ scen.extra[1].body.SCALING = 0) =>
     /\ call.exc # ""
     /\ _LIST = Loaded.LIST
     /\ _NAME_LUT = Loaded.NAME_LUT
     /\ _RARITY_INDEX = Loaded.RARITY_INDEX

\* C12: an apply that runs an absorbing variant of strength s on a damage
\* value with d in its category heals the defender by max(1, floor(d*s/100))
\* and logs one line when d > 0, and changes no HP and logs nothing when
\* d = 0; the damage value is as it was and nothing else changes.
C12_AbsorbHeals ==
  [][(call'.op = "apply" /\ call'.ran /\ heap[call'.self].cls \in AbsorbClasses) =>
       LET defender == call'.ctx[1].target
           s == heap[call'.self].strength
           d == call'.ctx[1].damage[1][DAMAGE_TYPE([heap |-> heap], call'.self)]
       IN /\ call'.exc = ""
          /\ call'.dmgObj = call'.ctx[1].damage
          /\ IF d > 0
             THEN /\ actors' = [actors EXCEPT
                                  ![defender].hp = @ + Max(1, (d * s) \div 100)]
                  /\ Len(call'.logged) = (IF call'.ctx[1].context THEN 1 ELSE 0)
             ELSE /\ actors' = actors
                  /\ call'.logged = <<>>]_vars

\* C13: an apply of an Idiot God Blessing free revive of strength s whose
\* duration is 1, on a defender whose HP is 0, leaves the defender with
\* floor(maxHP * s / 100) HP and the instance with duration 0; an apply of
\* the instance at duration 0 changes nothing.
C13_ReviveConsumed ==
  [][(/\ call'.op = "apply"
      /\ heap[call'.self].cls = "IdiotGodBlessing.FreeRevive") =>
       LET defender == call'.ctx[1].other
       IN /\ (call'.before = 1 /\ actors[defender].hp = 0) =>
               /\ call'.ran
               /\ actors'[defender].hp =
                    (actors[defender].max_hp * heap[call'.self].strength) \div 100
               /\ heap'[call'.self].duration = 0
          /\ call'.before = 0 => (actors' = actors /\ heap' = heap /\ ~call'.ran)]_vars

\* C14 as stated: an apply of a free revive whose duration is 1, on a
\* defender whose HP is above 0, heals nothing and leaves the duration at 2.
C14_RestoredToTwo ==
  [][(/\ call'.op = "apply"
      /\ heap[call'.self].cls \in ReviveClasses
      /\ call'.before = 1
      /\ actors[call'.ctx[1].other].hp > 0) =>
       (actors' = actors /\ heap'[call'.self].duration = 2)]_vars

\* C14, amended: an apply of a free revive whose duration is d > 0, on a
\* defender whose HP is above 0, heals nothing, logs nothing and leaves the
\* duration at d, the value it had before the call (1 stays 1, not 2).
C14_ChargePreserved ==
  [][(/\ call'.op = "apply"
      /\ heap[call'.self].cls \in ReviveClasses
      /\ call'.before > 0
      /\ actors[call'.ctx[1].other].hp > 0) =>
       /\ call'.ran
       /\ call'.entry = call'.before - 1
       /\ actors' = actors
       /\ call'.logged = <<>>
       /\ heap'[call'.self].duration = call'.before]_vars

\* a free revive with one charge was applied on a living defender and still has it
C14_Witness ==
  /\ call.op = "apply"
  /\ call.ran
  /\ call.before = 1
  /\ call.entry = 0
  /\ heap[call.self].cls \in ReviveClasses
  /\ heap[call.self].duration = 1
  /\ actors[call.ctx[1].other].hp > 0

\* the variants whose behaviour multiplies the damage, and those that add a flat amount
Multiplying ==
  {c \in Registered : BaseOf(c) = "_GenericDamageMult"}
  \cup {"Berserk", "ChaosBrand", "LuckyHit", "Bashing", "Ferocity", "EldritchSynergy",
        "Akimbo", "PlayerDamageMult"}

FlatAdding ==
  {c \in Registered : BaseOf(c) = "_GenericDamageBonus"} \cup {"FirstHitBonus", "RouletteAttack"}

\* the effects of order that add a flat amount moved behind the others
MultipliersFirst(order) ==
  OfClasses(order, heap, AllClasses \ FlatAdding) \o OfClasses(order, heap, FlatAdding)

\* C15: the effects of a phase are applied in ascending OP_ORDERING with the order of
\* registration as tie-break, and then every multiplying variant (ordering key 0) runs
\* before every flat-adding variant (ordering key 1): the damage a phase gives is the
\* one of 'apply the multipliers, then add the bonuses'.
C15_MultipliersBeforeBonuses ==
  [][(call'.op = "phase" /\ call'.exc = "") =>
       LET order == DispatchOrder(heap, scen.phase)
           ctx == call'.ctx[1]
       IN /\ \A i \in Range(order) :
               /\ heap[i].cls \in Multiplying =>
                    ClassAttr(classes, heap[i].cls, "OP_ORDERING") = <<0>>
               /\ heap[i].cls \in FlatAdding =>
                    ClassAttr(classes, heap[i].cls, "OP_ORDERING") = <<1>>
          /\ \A m, n \in DOMAIN order :
               (heap[order[m]].cls \in FlatAdding /\ heap[order[n]].cls \in Multiplying)
                 => n < m
          /\ \A W \in RunPhase({Work(ctx)}, MultipliersFirst(order), ctx, call'.rnd[1]) :
               call'.dmg = W.dmgObj]_vars

\* C16: applying a registered variant with a context that lacks a key does not
\* raise: the accessor gives the default and the apply call completes.
C16_MissingKeyDegrades ==
  (call.op = "apply" /\ scen.absent # {}) => call.exc = ""

\* C17: no effect mutates the damage value of the context: after apply the caller's
\* damage value holds the amounts it held before, and Roulette Attack returns the
\* input damage with its strength added to the drawn category and the others unchanged.
C17_DamageNotMutated ==
  (call.op = "apply" /\ call.exc = "" /\ call.ctx[1].damage # <<>>) =>
     /\ call.dmgObj = call.ctx[1].damage
     /\ (heap[call.self].cls = "RouletteAttack" /\ call.ran) =>
          call.dmg = <<[call.ctx[1].damage[1] EXCEPT
                          ![call.rnd[1].key] = @ + heap[call.self].strength]>>

\* C18: each invocation of a spawner appends exactly one new sub-effect instance at the
\* end of one actor's timed-modifier list, leaves the entries of the lists as they were
\* and leaves its own strength and duration unchanged; the apply of an instance changes
\* no other instance, so the countdown of a spawned instance never changes its parent
\* or another spawned instance.
C18_SpawnAppendsOne ==
  [][(call'.op = "apply" /\ call'.exc = "") =>
       LET self == call'.self
       IN /\ \A i \in DOMAIN heap \ {self} : heap'[i] = heap[i]
          /\ (heap[self].cls \in SpawnerClasses /\ call'.ran) =>
               /\ Len(heap') = Len(heap) + 1
               /\ call'.obj = Len(heap')
               /\ heap'[call'.obj].cls \in SubEffects
               /\ \E a \in Actors :
                    /\ actors'[a].timed_modifiers =
                         Append(actors[a].timed_modifiers, call'.obj)
                    /\ \A b \in Actors \ {a} :
                         actors'[b].timed_modifiers = actors[b].timed_modifiers
               /\ heap'[self] = heap[self]]_vars

\* a spawner added a sub-effect behind one it had spawned before
C18_Witness ==
  /\ call.op = "apply"
  /\ call.exc = ""
  /\ call.obj = Len(heap)
  /\ heap[call.self].cls \in SpawnerClasses
  /\ \E a \in Actors :
       /\ Len(actors[a].timed_modifiers) = 2
       /\ actors[a].timed_modifiers[2] = call.obj

Min(a, b) == IF a <= b THEN a ELSE b

\* C19: the TankHits instance an Eldritch Shield of strength s spawns answers with an
\* empty damage exactly min(s, number of hits of more than 1 point) of the hits it
\* received; a hit of at most 1 point is returned unchanged and consumes no charge; once
\* s hits are nullified the instance is expired and a hit gets no shield effect.
C19_ShieldNullifiesFirstHits ==
  /\ \A i \in DOMAIN heap :
       Watched(i) =>
         /\ tally.acted = Min(scen.strength, tally.seen)
         /\ heap[i].duration = scen.strength - tally.acted
  /\ (call.op = "apply" /\ heap[call.self].cls = "EldritchShield.TankHits") =>
       /\ call.exc = ""
       /\ (call.before > 0 /\ Damage_get_total_damage(call.ctx[1].damage[1]) <= 1) =>
            /\ call.dmg = call.ctx[1].damage
            /\ heap[call.self].duration = call.before
       /\ (call.before > 0 /\ Damage_get_total_damage(call.ctx[1].damage[1]) > 1) =>
            /\ call.dmg = <<Damage_get_empty>>
            /\ heap[call.self].duration = call.before - 1
       /\ call.before = 0 =>
            /\ ~call.ran
            /\ call.kind = "none"
            /\ call.logged = <<>>
            /\ heap[call.self].duration = 0

\* a shield of strength s has nullified s hits, let a hit of 1 point through in
\* between, and has then received one more hit of more than 1 point
C19_Witness ==
  /\ call.op = "apply"
  /\ heap[call.self].cls = "EldritchShield.TankHits"
  /\ call.before = 0
  /\ Damage_get_total_damage(call.ctx[1].damage[1]) > 1
  /\ tally.acted = scen.strength
  /\ tally.seen > scen.strength
  /\ tally.idle > 0

\* C20: the FreeRevive instance an Unyielding Will of strength s spawns revives, with a
\* heal of floor(max HP / 2), on exactly the first s applies that find the defender at
\* 0 HP and on no later one; an apply that finds the defender above 0 HP changes
\* neither the defender nor the number of revives left.
C20_WillGivesRevives ==
  [][/\ \A i \in DOMAIN heap' :
          (heap'[i].cls = scen.watch /\ \A j \in 1 .. (i - 1) : heap'[j].cls # scen.watch) =>
            /\ tally'.acted = Min(scen.strength, tally'.seen)
            /\ heap'[i].duration = scen.strength - tally'.acted
     /\ (call'.op = "apply" /\ heap[call'.self].cls = "UnyieldingWill.FreeRevive") =>
          LET self == call'.self
              defender == call'.ctx[1].other
          IN /\ call'.exc = ""
             /\ (call'.before > 0 /\ actors[defender].hp = 0) =>
                  /\ actors'[defender].hp = actors[defender].max_hp \div 2
                  /\ heap'[self].duration = call'.before - 1
             /\ (call'.before > 0 /\ actors[defender].hp > 0) =>
                  /\ actors' = actors
                  /\ heap'[self].duration = call'.before
             /\ call'.before = 0 =>
                  /\ ~call'.ran
                  /\ actors' = actors
                  /\ heap'[self].duration = 0]_vars

\* an Unyielding Will of strength s has revived s times, was applied on a living
\* defender in between, and has then found the defender at 0 HP once more
C20_Witness ==
  /\ call.op = "apply"
  /\ heap[call.self].cls = "UnyieldingWill.FreeRevive"
  /\ call.before = 0
  /\ actors[call.ctx[1].other].hp = 0
  /\ tally.acted = scen.strength
  /\ tally.seen > scen.strength
  /\ tally.idle > 0

\* C21: Poison Tipped of strength s returns the in-flight damage unchanged and appends
\* one poison to the target's timed-modifier list; the poison ticks on exactly the first
\* s turn-start applies, each taking 2 * s HP from the poisoned actor, and is inert on
\* every later apply.
C21_PoisonLastsStrengthTurns ==
  [][/\ (call'.op = "apply" /\ heap[call'.self].cls = "PoisonTipped") =>
          /\ call'.exc = ""
          /\ call'.kind = "damage" /\ call'.dmg = call'.ctx[1].damage
          /\ actors'[call'.ctx[1].other].timed_modifiers =
               Append(actors[call'.ctx[1].other].timed_modifiers, call'.obj)
     /\ (call'.op = "apply" /\ Watched(call'.self)) =>
          LET target == call'.ctx[1].entity
          IN IF tally.seen < scen.strength
             THEN /\ call'.ran
                  /\ actors'[target].hp = actors[target].hp - 2 * scen.strength
             ELSE /\ ~call'.ran
                  /\ actors' = actors]_vars

\* the outcomes of the roll with which an apply of helper i in context ctx takes HP
\* from the opponent
HelperHits(i, ctx) ==
  {r \in HelperRolls :
     Modifier_apply(Work(ctx), i, ctx, [NoDraw EXCEPT !.randint = r]).actors[ctx.opponent].hp
       < actors[ctx.opponent].hp}

\* C22: a Shade Helper is permanent, and of the 100 outcomes of its roll exactly 40 deal
\* its strength as damage to an opponent that has HP left, on every turn start.
C22_HelperHitsFortyPercent ==
  \A i \in DOMAIN heap :
    heap[i].cls = "AdditionalHelper.Helper" =>
      /\ heap[i].duration = -1
      /\ \A ctx \in Contexts :
           actors[ctx.opponent].hp > 0 => Cardinality(HelperHits(i, ctx)) = 40


\* C23: get_rewards returns (100 * m, 180 * m) with m = zone level + quest number
\* + guild level, so that a guild of level 0 still leaves 100 * (zone level +
\* quest number) xp and 180 * (zone level + quest number) money
C23_RewardsAddGuildLevel ==
  (call.op = "get_rewards" /\ player.guild # <<>>) =>
    LET m == call.args[1] + call.args[2] + player.guild[1].level
    IN /\ call.exc = ""
       /\ call.pair = <<100 * m, 180 * m>>

\* the sum of the required xp of the levels from..to - 1
RECURSIVE RequiredXpFrom(_, _)
RequiredXpFrom(from, to) ==
  IF from >= to THEN 0
  ELSE Player_get_required_xp([level |-> from]) + RequiredXpFrom(from + 1, to)

AddXpReturned == call.op = "add_xp" /\ call.pc = ""

\* C24: for a player of level >= 0 and xp >= 0 and an amount >= 0, add_xp
\* terminates; it returns true exactly when the level is higher than before,
\* never lowers the level, leaves xp below the required xp of the resulting
\* level, and the xp removed is the sum of the required xp of the levels passed
C24_AddXpLevelsUp ==
  /\ [](AddXpReturned =>
          LET old == call.old[1]
          IN /\ call.truth <=> player.level > old.level
             /\ player.level >= old.level
             /\ player.xp < Player_get_required_xp(player)
             /\ old.xp + call.args[1] - player.xp =
                  RequiredXpFrom(old.level, player.level))
  /\ (call.op = "add_xp") ~> AddXpReturned

\* a call that passed two levels or more
C24_Witness == AddXpReturned /\ player.level >= call.old[1].level + 2

\* C25: an upgrade of the gear or of the home made after its check raises the
\* level by 1 and takes the required money of the level held before, the amount
\* the check compared with, so that the money stays >= 0; Guild.upgrade does so
\* with the money of the founder
C25_UpgradeTakesComparedPrice ==
  LET old == call.old[1]
  IN /\ call.op = "upgrade_gear" =>
          /\ player.gear_level = old.gear_level + 1
          /\ old.money - player.money = Player_get_gear_upgrade_required_money(old)
          /\ player.money >= 0
     /\ call.op = "upgrade_home" =>
          /\ player.home_level = old.home_level + 1
          /\ old.money - player.money = Player_get_home_upgrade_required_money(old)
          /\ player.money >= 0
     /\ call.op = "upgrade" =>
          /\ player.guild[1].level = old.guild[1].level + 1
          /\ old.guild[1].founder.money - player.guild[1].founder.money
               = Guild_get_upgrade_required_money(old.guild[1])
          /\ player.guild[1].founder.money >= 0

\* C26: the flags hold successive powers of two in definition order, one bit
\* each and no two the same; for every flag F and container t, F is set in
\* F.set(t) and not set in F.unset(t), whether or not it was set in t, and
\* neither changes another bit of t
C26_FlagsAreSingleBits ==
  /\ \A k \in 1 .. Cardinality(DOMAIN FLAG) : FLAG[FlagDefs[k]] = {k - 1}
  /\ call.op = "set" =>
       /\ Flag_is_set(call.args[1], call.bits)
       /\ call.bits \ FLAG[call.args[1]] = call.args[2] \ FLAG[call.args[1]]
  /\ call.op = "unset" =>
       /\ ~Flag_is_set(call.args[1], call.bits)
       /\ call.bits \ FLAG[call.args[1]] = call.args[2] \ FLAG[call.args[1]]
====
